---- MODULE Spec2Model ----
(***************************************************************************)
(* Vibe similarity, blending, ranking and pill derivation of the playlist  *)
(* front-end, modelled from the screens that implement them.               *)
(*                                                                         *)
(* Numbers.  Vector components are written in hundredths (100 is 1.0, 35   *)
(* is 0.35).  The vectors the model draws have a Euclidean norm that is a  *)
(* whole number of hundredths, so every cosine and every blended score is  *)
(* an exact rational, kept as a normalised fraction [n, d].                *)
(* Indices.  The source indexes vectors from 0; Has(v, i) and OrZero(v, i) *)
(* take the source's index and read past the end as JavaScript does.       *)
(***************************************************************************)
EXTENDS Integers, Sequences, FiniteSets, TLC

\* null (a missing table row or column) and a JavaScript array of numbers.
NULL == [tag |-> "null"]
Vec(items) == [tag |-> "array", items |-> items]
\* An object used as a map, as its list of entries.
Obj(entries) == [tag |-> "object", entries |-> entries]
\* No user: the route parameter before the screen has loaded.
NoUser == "none"

\* A rendered string, as the pieces the template puts together.
Text(parts) == [tag |-> "text", parts |-> parts]

\* ------------------------------------------------------------- numbers

Abs(x) == IF x < 0 THEN -x ELSE x

RECURSIVE GCD(_, _)
GCD(a, b) == IF b = 0 THEN a ELSE GCD(b, a % b)

\* The fraction n/d (d # 0) in lowest terms with a positive denominator.
Rat(n, d) ==
  LET g == GCD(Abs(n), Abs(d))
      s == IF d < 0 THEN -1 ELSE 1
  IN [n |-> (s * n) \div g, d |-> (s * d) \div g]

RZero == [n |-> 0, d |-> 1]
ROne == [n |-> 1, d |-> 1]
RAdd(x, y) == Rat(x.n * y.d + y.n * x.d, x.d * y.d)
RSub(x, y) == Rat(x.n * y.d - y.n * x.d, x.d * y.d)
RDivInt(x, k) == Rat(x.n, x.d * k)
RMulInt(x, k) == Rat(x.n * k, x.d)
RLess(x, y) == x.n * y.d < y.n * x.d
RLeq(x, y) == x.n * y.d <= y.n * x.d

\* Math.sqrt, by Newton's iteration on whole numbers: the largest r with
\* r * r <= n, which is the exact root of the squares the model draws.
RECURSIVE SqrtFrom(_, _)
SqrtFrom(n, x) ==
  LET y == (x + n \div x) \div 2
  IN IF y >= x THEN x ELSE SqrtFrom(n, y)

Sqrt(n) == IF n = 0 THEN 0 ELSE SqrtFrom(n, n)

\* ------------------------------------------------------------- vectors

Length(v) == Len(v.items)

\* Whether index i (0-based, as in the source) is inside the array.
Has(v, i) == 0 <= i /\ i < Length(v)

\* (v[i] || 0): an index past the end reads undefined, which || turns to 0.
OrZero(v, i) == IF Has(v, i) THEN v.items[i + 1] ELSE 0

RECURSIVE SumTo(_, _)
SumTo(f, n) == IF n = 0 THEN 0 ELSE f[n] + SumTo(f, n - 1)

\* a.reduce((s, v, i) => s + (v || 0) * (b[i] || 0), 0): runs over a's
\* indices only, so a shorter b is read as padded with zeros and a longer b
\* is cut to a's length.
dot(a, b) ==
  SumTo([i \in 1..Length(a) |-> OrZero(a, i - 1) * OrZero(b, i - 1)], Length(a))

SumSq(a) ==
  SumTo([i \in 1..Length(a) |-> OrZero(a, i - 1) * OrZero(a, i - 1)], Length(a))

norm(a) == Sqrt(SumSq(a))

\* The cosine with the second norm taken over the first vector's indices only.
cosine_truncated_norm(a, b) ==
  IF a = NULL \/ b = NULL THEN RZero
  ELSE LET na == norm(a)
           nb == Sqrt(SumTo([k \in 1..Length(a) |-> OrZero(b, k - 1) * OrZero(b, k - 1)],
                            Length(a)))
       IN IF na = 0 \/ nb = 0 THEN RZero ELSE Rat(dot(a, b), na * nb)

cosine_degenerate_one(a, b) ==
  IF a = NULL \/ b = NULL THEN ROne
  ELSE IF norm(a) = 0 \/ norm(b) = 0 THEN ROne
  ELSE Rat(dot(a, b), norm(a) * norm(b))

cosine(a, b) ==
  IF a = NULL \/ b = NULL THEN RZero
  ELSE LET na == norm(a)
           nb == norm(b)
       IN IF na = 0 \/ nb = 0 THEN RZero
          ELSE Rat(dot(a, b), na * nb)

\* ------------------------------------------------------ double precision

\* JavaScript numbers are IEEE 754 doubles: Math.sqrt, * and / each round
\* their exact result to 53 significant bits, to nearest, ties to even.
\* Exact results need more bits than an integer here holds, so they are
\* kept as naturals in limbs of 14 bits, lowest limb first, no leading 0.
Base == 16384

LimbBits == 14

RECURSIVE BigOf(_)
BigOf(n) == IF n = 0 THEN <<>> ELSE <<n % Base>> \o BigOf(n \div Base)

RECURSIVE BigAddCarry(_, _, _)
BigAddCarry(x, y, c) ==
  IF x = <<>> /\ y = <<>> THEN BigOf(c)
  ELSE LET t == (IF x = <<>> THEN 0 ELSE Head(x)) + (IF y = <<>> THEN 0 ELSE Head(y)) + c
       IN <<t % Base>> \o BigAddCarry(IF x = <<>> THEN <<>> ELSE Tail(x),
                                      IF y = <<>> THEN <<>> ELSE Tail(y), t \div Base)

BigAdd(x, y) == BigAddCarry(x, y, 0)

\* x * d + c for one limb d.
RECURSIVE BigMulLimb(_, _, _)
BigMulLimb(x, d, c) ==
  IF d = 0 THEN BigOf(c)
  ELSE IF x = <<>> THEN BigOf(c)
  ELSE LET t == Head(x) * d + c
       IN <<t % Base>> \o BigMulLimb(Tail(x), d, t \div Base)

\* x * Base, 0 staying 0.
ShiftLimb(x) == IF x = <<>> THEN <<>> ELSE <<0>> \o x

RECURSIVE BigMul(_, _)
BigMul(x, y) ==
  IF x = <<>> \/ y = <<>> THEN <<>>
  ELSE BigAdd(BigMulLimb(x, Head(y), 0), ShiftLimb(BigMul(x, Tail(y))))

\* x <= y, compared from the highest limb down.
RECURSIVE BigLeqFrom(_, _, _)
BigLeqFrom(x, y, k) ==
  IF k = 0 THEN TRUE
  ELSE IF x[k] # y[k] THEN x[k] < y[k]
  ELSE BigLeqFrom(x, y, k - 1)

BigLeq(x, y) ==
  IF Len(x) # Len(y) THEN Len(x) < Len(y) ELSE BigLeqFrom(x, y, Len(x))

BigLess(x, y) == ~BigLeq(y, x)

RECURSIVE SmallPow2(_)
SmallPow2(k) == IF k = 0 THEN 1 ELSE 2 * SmallPow2(k - 1)

\* 2^k
BigPow2(k) == [j \in 1..(k \div LimbBits + 1) |->
                 IF j = k \div LimbBits + 1 THEN SmallPow2(k % LimbBits) ELSE 0]

\* x * 2^k
BigShift(x, k) == BigMul(x, BigPow2(k))

\* A double other than 0: (-1)^neg * m * 2^e with 2^52 <= m < 2^53.
Double(neg, m, e) == [neg |-> neg, m |-> m, e |-> e]

DZero == [neg |-> FALSE, m |-> <<>>, e |-> 0]

Two52 == BigPow2(52)

Two53 == BigPow2(53)

\* q with the given bit set when the quotient has it.
DivStep(q, bit, num, den) ==
  LET cand == BigAdd(q, BigPow2(bit))
  IN IF BigLeq(BigMul(cand, den), num) THEN cand ELSE q

\* floor(num / den), known to lie in [2^52, 2^53): the bits below the top
\* one are settled from the highest down, four at a time.
RECURSIVE Div53From(_, _, _, _)
Div53From(q, bit, num, den) ==
  IF bit < 0 \/ q = <<>> THEN q
  ELSE Div53From(DivStep(DivStep(DivStep(DivStep(q, bit, num, den), bit - 1, num, den),
                                 bit - 2, num, den), bit - 3, num, den),
                 bit - 4, num, den)

\* The exponent e with 2^(52+e) <= num/den < 2^(53+e).
RECURSIVE ExponentFrom(_, _, _)
ExponentFrom(num, den, e) ==
  LET AtLeast(k) == IF k >= 0 THEN BigLeq(BigShift(den, k), num)
                    ELSE BigLeq(den, BigShift(num, 0 - k))
  IN IF ~AtLeast(52 + e) THEN ExponentFrom(num, den, e - 1)
     ELSE IF AtLeast(53 + e) THEN ExponentFrom(num, den, e + 1)
     ELSE e

\* The positive fraction num/den rounded to a double.
Round53(num, den) ==
  LET expo == ExponentFrom(num, den, LimbBits * (Len(num) - Len(den)) - 52)
      n == IF expo < 0 THEN BigShift(num, 0 - expo) ELSE num
      d == IF expo > 0 THEN BigShift(den, expo) ELSE den
      quot == Div53From(Two52, 51, n, d)
      twice == BigMulLimb(n, 2, 0)
      mid == BigMul(BigAdd(BigMulLimb(quot, 2, 0), <<1>>), d)
      up == BigLess(mid, twice) \/ (mid = twice /\ quot[1] % 2 = 1)
      rounded == IF up THEN BigAdd(quot, <<1>>) ELSE quot
  IN IF rounded = Two53 THEN Double(FALSE, Two52, expo + 1) ELSE Double(FALSE, rounded, expo)

\* s with the given bit set when the root has it.
SqrtStep(s, bit, n) ==
  LET cand == BigAdd(s, BigPow2(bit))
  IN IF BigLeq(BigMul(cand, cand), n) THEN cand ELSE s

\* floor(sqrt(n)), known to lie in [2^52, 2^53): the bits below the top one
\* are settled from the highest down, four at a time.
RECURSIVE Sqrt53From(_, _, _)
Sqrt53From(s, bit, n) ==
  IF bit < 0 \/ s = <<>> THEN s
  ELSE Sqrt53From(SqrtStep(SqrtStep(SqrtStep(SqrtStep(s, bit, n), bit - 1, n),
                                    bit - 2, n), bit - 3, n),
                  bit - 4, n)

\* floor(log4(n)) for n >= 1
RECURSIVE Log4(_)
Log4(n) == IF n < 4 THEN 0 ELSE 1 + Log4(n \div 4)

\* Math.sqrt of a whole number n >= 0
DSqrt(n) ==
  IF n = 0 THEN DZero
  ELSE LET big == BigShift(BigOf(n), 104 - 2 * Log4(n))
           root == Sqrt53From(Two52, 51, big)
           up == BigLess(BigAdd(BigMul(root, root), root), big)
           rounded == IF up THEN BigAdd(root, <<1>>) ELSE root
       IN IF rounded = Two53 THEN Double(FALSE, Two52, Log4(n) - 51)
          ELSE Double(FALSE, rounded, Log4(n) - 52)

\* x * y
DMul(x, y) ==
  IF x = DZero \/ y = DZero THEN DZero
  ELSE LET prod == Round53(BigMul(x.m, y.m), <<1>>)
       IN Double(x.neg # y.neg, prod.m, prod.e + x.e + y.e)

\* n / y for a whole number n and a double y other than 0
DDivWhole(n, y) ==
  IF n = 0 THEN DZero
  ELSE LET ratio == Round53(BigOf(Abs(n)), y.m)
       IN Double((n < 0) # y.neg, ratio.m, ratio.e - y.e)

\* |x| <= 1
DWithinOne(x) == x = DZero \/ x.e < -52 \/ (x.e = -52 /\ x.m = Two52)

\* norm in doubles, for a vector of whole numbers: the sum of squares of
\* small whole numbers is exact, Math.sqrt rounds.
normDouble(a) == DSqrt(SumSq(a))

\* cosine in doubles, for vectors of whole numbers: dot is exact, the
\* product of the norms rounds, and so does the quotient.
cosineDouble(a, b) ==
  IF a = NULL \/ b = NULL THEN DZero
  ELSE LET na == normDouble(a)
           nb == normDouble(b)
       IN IF na = DZero \/ nb = DZero THEN DZero
          ELSE DDivWhole(dot(a, b), DMul(na, nb))

\* ------------------------------------------------------------- ranking

WithSimilarity_only_id(movie, blended) ==
  ("similarity" :> blended) @@ [f \in DOMAIN movie \cap {"id"} |-> movie[f]]

\* { ...movie, similarity: blended }: the movie's own fields, then similarity.
WithSimilarity(movie, blended) == ("similarity" :> blended) @@ movie

\* (a, b) => (b.similarity || 0) - (a.similarity || 0)
compareFn(a, b) == RSub(b.similarity, a.similarity)

\* Array.prototype.sort is stable: an element goes before the first element
\* the comparator orders strictly after it, and after everything else.
RECURSIVE InsertSorted(_, _)
InsertSorted(sorted, x) ==
  IF sorted = <<>> THEN <<x>>
  ELSE IF compareFn(Head(sorted), x).n > 0
       THEN <<x>> \o sorted
       ELSE <<Head(sorted)>> \o InsertSorted(Tail(sorted), x)

RECURSIVE SortFrom(_, _)
SortFrom(sorted, rest) ==
  IF rest = <<>> THEN sorted
  ELSE SortFrom(InsertSorted(sorted, Head(rest)), Tail(rest))

RECURSIVE InsertAscending(_, _)
InsertAscending(sorted, x) ==
  IF sorted = <<>> THEN <<x>>
  ELSE IF compareFn(Head(sorted), x).n < 0
       THEN <<x>> \o sorted
       ELSE <<Head(sorted)>> \o InsertAscending(Tail(sorted), x)

RECURSIVE SortAscendingFrom(_, _)
SortAscendingFrom(sorted, rest) ==
  IF rest = <<>> THEN sorted
  ELSE SortAscendingFrom(InsertAscending(sorted, Head(rest)), Tail(rest))

sort_ascending(rows) == SortAscendingFrom(<<>>, rows)

RECURSIVE InsertBeforeEqual(_, _)
InsertBeforeEqual(sorted, x) ==
  IF sorted = <<>> THEN <<x>>
  ELSE IF compareFn(Head(sorted), x).n >= 0
       THEN <<x>> \o sorted
       ELSE <<Head(sorted)>> \o InsertBeforeEqual(Tail(sorted), x)

RECURSIVE SortUnstableFrom(_, _)
SortUnstableFrom(sorted, rest) ==
  IF rest = <<>> THEN sorted
  ELSE SortUnstableFrom(InsertBeforeEqual(sorted, Head(rest)), Tail(rest))

sort_unstable(rows) == SortUnstableFrom(<<>>, rows)

\* rows.sort((a, b) => (b.similarity || 0) - (a.similarity || 0))
sort(rows) == SortFrom(<<>>, rows)

\* ------------------------------------------------------------- data drawn

Me == "me"
Others == {"u1", "u2"}
Users == {Me} \cup Others

Zeros(n) == [i \in 1..n |-> 0]

\* Preference vectors a user_preferences row may hold.
PrefZero == Vec(Zeros(10))
PrefArthouse == Vec([Zeros(10) EXCEPT ![1] = 100])
PrefMixed == Vec([Zeros(10) EXCEPT ![1] = -60, ![2] = 80])
PrefPool == {NULL, PrefZero, PrefArthouse, PrefMixed}

\* movie_vibes rows joined with movies(*): a full vector, a missing vector,
\* a second full vector, and a one-component vector on a row whose movie
\* join is missing.
MovieVibePool ==
  { [movie_id |-> 1, vibe_vector |-> Vec([Zeros(10) EXCEPT ![1] = 100]),
     movie |-> [id |-> 1, title |-> "m1", poster_path |-> "/p1.jpg"]],
    [movie_id |-> 2, vibe_vector |-> NULL,
     movie |-> [id |-> 2, title |-> "m2"]],
    [movie_id |-> 3, vibe_vector |-> Vec([Zeros(10) EXCEPT ![1] = 60, ![2] = 80]),
     movie |-> [id |-> 3, title |-> "m3", release_date |-> "1999-01-01"]],
    [movie_id |-> 4, vibe_vector |-> Vec(<<100>>),
     movie |-> NULL] }

MaxMovies == 2

\* The batches the movie_vibes query may return: up to MaxMovies distinct rows.
MovieBatches ==
  UNION { { b \in [1..k -> MovieVibePool] :
              \A i, j \in 1..k : i # j => b[i] # b[j] } : k \in 0..MaxMovies }

\* ------------------------------------------------------------- state

VARIABLES
  mounted,            \* the screen component that is mounted
  prefs,              \* user_preferences: user id -> preference_vector or NULL
  movieVibes,         \* what the movie_vibes query returns
  id,                 \* BlendWithUserScreen: the route's [id], NoUser before load
  movies,             \* BlendWithUserScreen: the rows shown
  selectedUsers,      \* BlendScreen: the users picked for the blend
  viewMode,           \* BlendScreen: "search" or "results"
  blendedMovies,      \* BlendScreen (legacy revision): NULL or the rows shown
  blendedTopPicks,    \* BlendScreen: NULL or the backend's top picks
  blendedCategories,  \* BlendScreen: NULL or the backend's categories
  alert,              \* title of the last Alert.alert, "none" before any
  participantIds,     \* participants of the request whose rows are shown,
                      \* <<>> while no computed rows are shown
  storedVector,       \* the vector column of the row a screen is about to read
  preferenceVector,   \* ProfileScreen: the user's vector, NULL before load
  profilePills,       \* ProfileScreen: the pills rendered
  movieVibe,          \* MovieDetailsModal: the movie's vector, NULL before load
  moviePills,         \* MovieDetailsModal: the pills rendered
  viewerPref,         \* MovieDetailsModal: userPref, NULL before load
  whyThisText,        \* MovieDetailsModal: NULL or the sentence rendered
  sections,           \* HomeScreen: the sections of the last feed received
  search,             \* HomeScreen: the text in the search box
  error,              \* HomeScreen: NULL or the feed's error message
  view,               \* HomeScreen, BlendScreen: the sections rendered, each
                      \* with its cards
  finalAnswers,       \* VibeQuizScreen: the answers handed to handleSubmit
  payloadVector,      \* VibeQuizScreen: NULL or the payload's preferenceVector
  quizError,          \* VibeQuizScreen: NULL or the error message shown
  route,              \* the route the router is on
  operandA,           \* cosine: its first argument
  operandB,           \* cosine: its second argument
  cosineResult,       \* cosine: NULL or the number returned
  factor,             \* cosine: the k > 0 its first argument is scaled by
  scaledResult,       \* cosine: NULL or the number returned for k * a
  loader,             \* LoadingProvider: count, isLoading and message
  currentIndex,       \* VibeQuizScreen: the index of the question shown
  answers,            \* VibeQuizScreen: question id -> choice, as answered
  submitting,         \* VibeQuizScreen: whether a submission is under way
  submissions,        \* the calls of handleSubmit that have not returned
  apiUrlSet,          \* whether EXPO_PUBLIC_API_URL is set in this build
  session,            \* whether the supabase client holds a session
  authLoading,        \* AuthProvider: isLoading
  isAuthenticated,    \* AuthProvider: isAuthenticated
  user,               \* AuthProvider: "null" or "object"
  authEvents,         \* how many times the auth listener has been called
  bootLoading,        \* AuthGate: bootLoading
  hasProfile,         \* AuthGate: "null", "true" or "false"
  hasPreferences,     \* AuthGate: "null", "true" or "false"
  bootstrapDue,       \* AuthGate: the bootstrap effect's dependencies changed
  boots,              \* AuthGate: the calls of bootstrap that have not returned
  profileRow,         \* profiles: whether the user's row has a display name
  blendLoading,       \* BlendScreen: blendLoading
  blendRequests,      \* the calls of computeBlended that have not returned
  searchQuery,        \* BlendScreen: the text in the user search box
  results,            \* BlendScreen: the profiles the user search shows
  searching,          \* BlendScreen: searching
  searchError,        \* BlendScreen: NULL or the search's error message
  searchTimeoutRef,   \* BlendScreen: searchTimeoutRef.current, 0 for null
  timers,             \* the debounce timers pending, each with the query of
                      \* the render that set it
  timersSet,          \* how many timers setTimeout has made
  searches,           \* the calls of handleSearch that have not returned
  effectCleanup,      \* whether the debounce effect's last run returned a cleanup
  searchEffectDue     \* the debounce effect's dependencies changed

blendVars ==
  <<mounted, prefs, movieVibes, id, movies, selectedUsers, viewMode,
    blendedMovies, blendedTopPicks, blendedCategories, alert, participantIds>>

pillVars ==
  <<storedVector, preferenceVector, profilePills, movieVibe, moviePills,
    viewerPref, whyThisText>>

homeVars == <<sections, search, error>>

quizVars == <<finalAnswers, payloadVector, quizError, route>>

cosineVars == <<operandA, operandB, cosineResult>>

scaleVars == <<factor, scaledResult>>

\* The state of the components and calls followed apart from the screens
\* above.
loaderVars == <<loader>>

flowVars == <<currentIndex, answers, submitting, submissions, apiUrlSet>>

gateVars ==
  <<session, authLoading, isAuthenticated, user, authEvents, bootLoading,
    hasProfile, hasPreferences, bootstrapDue, boots, profileRow>>

requestVars == <<blendLoading, blendRequests>>

searchVars ==
  <<searchQuery, results, searching, searchError, searchTimeoutRef, timers,
    timersSet, searches, effectCleanup, searchEffectDue>>

tabVars == <<requestVars, searchVars>>

extraVars == <<scaleVars, loaderVars, flowVars, gateVars, tabVars>>

\* The state of the screens above.
baseVars == <<blendVars, pillVars, homeVars, view, quizVars>>

\* Everything the blend screens never touch.
outsideBlend == <<pillVars, homeVars, quizVars, cosineVars, extraVars>>

\* Everything the pill screens never touch.
outsidePills == <<blendVars, homeVars, view, quizVars, cosineVars, extraVars>>

\* Everything the home screen never touches.
outsideHome == <<blendVars, pillVars, quizVars, cosineVars, extraVars>>

\* Everything the quiz never touches.
outsideQuiz == <<blendVars, pillVars, homeVars, view, cosineVars, extraVars>>

\* Everything a call of cosine on its own never touches.
outsideCosine == <<blendVars, pillVars, homeVars, view, quizVars, extraVars>>

vars == <<blendVars, pillVars, homeVars, view, quizVars, cosineVars, extraVars>>

\* Everything a call of cosine on a scaled argument never touches.
outsideScale == <<baseVars, loaderVars, flowVars, gateVars, tabVars>>

\* Everything the quiz's handlers and its submission never touch.
outsideFlow ==
  <<mounted, movieVibes, id, movies, selectedUsers, viewMode, blendedMovies,
    blendedTopPicks, blendedCategories, alert, participantIds, pillVars,
    homeVars, view, cosineVars, scaleVars, gateVars, tabVars>>

\* Everything AuthProvider and AuthGate never touch.
outsideGate ==
  <<mounted, movieVibes, id, movies, selectedUsers, viewMode, blendedMovies,
    blendedTopPicks, blendedCategories, alert, participantIds, pillVars,
    homeVars, view, cosineVars, scaleVars, prefs, finalAnswers, payloadVector,
    apiUrlSet, tabVars>>

\* No screen mounted but the named one, nothing loaded, picked or shown.
ScreensIdle(screen) ==
  /\ mounted = screen
  /\ prefs = [u \in Users |-> NULL]
  /\ movieVibes = <<>>
  /\ id = NoUser
  /\ movies = <<>>
  /\ selectedUsers = <<>>
  /\ viewMode = "search"
  /\ blendedMovies = NULL
  /\ blendedTopPicks = NULL
  /\ blendedCategories = NULL
  /\ alert = "none"
  /\ participantIds = <<>>
  /\ storedVector = NULL
  /\ preferenceVector = NULL
  /\ profilePills = <<>>
  /\ movieVibe = NULL
  /\ moviePills = <<>>
  /\ viewerPref = NULL
  /\ whyThisText = NULL
  /\ sections = <<>>
  /\ search = <<>>
  /\ error = NULL
  /\ view = <<>>

\* The quiz not submitted.
QuizIdle ==
  /\ finalAnswers = <<>>
  /\ payloadVector = NULL
  /\ quizError = NULL
  /\ route = "/(tabs)"

\* cosine not called.
CosineIdle ==
  /\ operandA = NULL /\ operandB = NULL /\ cosineResult = NULL

\* cosine not called on a scaled argument.
ScaleIdle ==
  /\ factor = 1 /\ scaledResult = NULL

\* The loader as LoadingProvider mounts: useState(0), useState(false),
\* useState(undefined).
LoaderIdle ==
  loader = [count |-> 0, isLoading |-> FALSE, message |-> "undefined"]

\* The quiz as it mounts, nothing submitted.
FlowIdle ==
  /\ currentIndex = 0
  /\ answers = <<>>
  /\ submitting = FALSE
  /\ submissions = <<>>
  /\ apiUrlSet = TRUE

\* A signed-in, onboarded user after auth loading and bootstrap.
GateIdle ==
  /\ session = TRUE
  /\ authLoading = FALSE
  /\ isAuthenticated = TRUE
  /\ user = "object"
  /\ authEvents = 0
  /\ bootLoading = FALSE
  /\ hasProfile = "true"
  /\ hasPreferences = "true"
  /\ bootstrapDue = FALSE
  /\ boots = <<>>
  /\ profileRow = TRUE

\* The blend tab as it mounts: no blend asked for, the search box empty,
\* the debounce effect run once on the empty query.
TabIdle ==
  /\ blendLoading = FALSE
  /\ blendRequests = <<>>
  /\ searchQuery = <<>>
  /\ results = <<>>
  /\ searching = FALSE
  /\ searchError = NULL
  /\ searchTimeoutRef = 0
  /\ timers = {}
  /\ timersSet = 0
  /\ searches = <<>>
  /\ effectCleanup = FALSE
  /\ searchEffectDue = FALSE

ExtraIdle == ScaleIdle /\ LoaderIdle /\ FlowIdle /\ GateIdle /\ TabIdle

\* (x || {}) for a joined movie record.
OrEmptyObject(movie) == IF movie = NULL THEN <<>> ELSE movie

\* ------------------------------------------------------------ rail cards

\* Math.round(x) for x >= 0 given as a fraction: half rounds up.
Round(x) == (2 * x.n + x.d) \div (2 * x.d)

\* Math.max(0, Math.min(1, similarity))
Clamp01(x) == IF RLess(x, RZero) THEN RZero ELSE IF RLess(ROne, x) THEN ROne ELSE x

\* A JavaScript number that may also be null.
Num(value) == [tag |-> "number", value |-> value]

matchPercent_unclamped(similarity) ==
  IF similarity = NULL THEN NULL
  ELSE IF RLess(similarity, RZero)
       THEN Num(0 - Round(RMulInt(RSub(RZero, similarity), 100)))
       ELSE Num(Round(RMulInt(similarity, 100)))

\* similarity !== null ? Math.round(Math.max(0, Math.min(1, similarity)) * 100) : null
matchPercent(similarity) ==
  IF similarity = NULL THEN NULL
  ELSE Num(Round(RMulInt(Clamp01(similarity), 100)))

\* typeof movie[field] === 'number' ? movie[field] : null
NumberField(movie, field) ==
  IF field \in DOMAIN movie /\ movie[field] # NULL THEN movie[field] ELSE NULL

\* renderRailCard: the card of a movie, scored by the given field.
renderRailCard(movie, field) ==
  [movie |-> movie, score |-> NumberField(movie, field),
   matchPercent |-> matchPercent(NumberField(movie, field))]

\* A rendered section: its key, its title and its rail of cards.
RenderSection(key, title, rows, field) ==
  [key |-> key, title |-> title,
   cards |-> [k \in 1..Len(rows) |-> renderRailCard(rows[k], field)]]

\* Object.entries(blendedCategories) sorted by name.
RECURSIVE InsertByName(_, _)
InsertByName(sorted, x) ==
  IF sorted = <<>> THEN <<x>>
  ELSE IF x.name = "Action" /\ Head(sorted).name # "Action"
       THEN <<x>> \o sorted
       ELSE <<Head(sorted)>> \o InsertByName(Tail(sorted), x)

RECURSIVE Entries_sorted(_)
Entries_sorted(entries) ==
  IF entries = <<>> THEN <<>>
  ELSE InsertByName(Entries_sorted(Tail(entries)), Head(entries))

\* Object.entries(blendedCategories): the keys in the order of the response.
Entries(entries) == entries

\* BlendScreen's results view: the top picks when there are any, then one
\* section per category.
BlendView(mode, topPicks, categories) ==
  IF mode # "results" THEN <<>>
  ELSE (IF topPicks # NULL /\ Len(topPicks.items) > 0
        THEN <<RenderSection("top_picks", Text(<<"Top picks for you">>),
                             topPicks.items, "blend_score")>>
        ELSE <<>>)
       \o
       (IF categories # NULL /\ Len(categories.entries) > 0
        THEN [k \in 1..Len(Entries(categories.entries)) |->
                RenderSection(Entries(categories.entries)[k].name,
                              Text(<<"Best ", Entries(categories.entries)[k].name, " Blend">>),
                              Entries(categories.entries)[k].rows, "blend_score")]
        ELSE <<>>)

\* ------------------------------------------------------------ HomeScreen

\* Strings the home screen searches in are sequences of characters.
Str(chars) == [tag |-> "string", chars |-> chars]

ToLowerChar(c) == IF c = "A" THEN "a" ELSE IF c = "B" THEN "b" ELSE c

\* String.prototype.toLowerCase
ToLowerCase(str) == [k \in 1..Len(str) |-> ToLowerChar(str[k])]

\* String.prototype.trim
RECURSIVE TrimStart(_)
TrimStart(str) ==
  IF str # <<>> /\ Head(str) = " " THEN TrimStart(Tail(str)) ELSE str

RECURSIVE TrimEnd(_)
TrimEnd(str) ==
  IF str # <<>> /\ str[Len(str)] = " " THEN TrimEnd(SubSeq(str, 1, Len(str) - 1)) ELSE str

Trim(str) == TrimEnd(TrimStart(str))

\* String.prototype.includes
Includes(str, q) ==
  \E k \in 1..(Len(str) - Len(q) + 1) : SubSeq(str, k, k + Len(q) - 1) = q

\* (m.title || '')
TitleOf(m) == IF "title" \in DOMAIN m /\ m.title # NULL THEN m.title.chars ELSE <<>>

\* (section.movies || [])
MoviesOf(section) == IF section.movies = NULL THEN <<>> ELSE section.movies.items

filteredSections_keep_all(all, text) == all

\* (section.movies || []).filter(m => (m.title || '').toLowerCase().includes(q))
RECURSIVE FilterMovies(_, _)
FilterMovies(movies_, q) ==
  IF movies_ = <<>> THEN <<>>
  ELSE (IF Includes(ToLowerCase(TitleOf(Head(movies_))), q) THEN <<Head(movies_)>> ELSE <<>>)
       \o FilterMovies(Tail(movies_), q)

\* .filter(section => (section.movies || []).length > 0)
RECURSIVE FilterNonEmpty(_)
FilterNonEmpty(all) ==
  IF all = <<>> THEN <<>>
  ELSE (IF Len(MoviesOf(Head(all))) > 0 THEN <<Head(all)>> ELSE <<>>)
       \o FilterNonEmpty(Tail(all))

\* filteredSections: every section as received when the trimmed text is
\* empty, else the sections cut to the matching titles, the empty ones
\* dropped.
filteredSections(all, text) ==
  LET q == ToLowerCase(Trim(text))
  IN IF q = <<>> THEN all
     ELSE FilterNonEmpty([k \in 1..Len(all) |->
                            [all[k] EXCEPT !.movies = Vec(FilterMovies(MoviesOf(all[k]), q))]])

\* filteredSections.map(section => ...): one rail per section.
HomeView(all, text) ==
  LET shown == filteredSections(all, text)
  IN [k \in 1..Len(shown) |->
        RenderSection(shown[k].id, Text(<<shown[k].title>>), MoviesOf(shown[k]),
                      "similarity")]

\* The movies GET /v1/home may list.
HomeMovies ==
  [ab |-> [id |-> 1, title |-> Str(<<"A", "b">>), similarity |-> Rat(1, 8)],
   ba |-> [id |-> 2, title |-> Str(<<"b", "a">>), similarity |-> Rat(-3, 10)],
   untitled |-> [id |-> 3, title |-> NULL, similarity |-> NULL],
   a |-> [id |-> 4, title |-> Str(<<"a">>), similarity |-> Rat(3, 2)],
   b |-> [id |-> 5, title |-> Str(<<"b">>), similarity |-> Rat(199, 200)]]

\* The sections GET /v1/home may list.
HomeSectionPool ==
  { [id |-> "top_picks", title |-> "Top picks", style |-> "rail",
     movies |-> Vec(<<HomeMovies.ab, HomeMovies.ba, HomeMovies.a>>)],
    [id |-> "drama", title |-> "Drama", style |-> "rail",
     movies |-> Vec(<<HomeMovies.ba, HomeMovies.untitled, HomeMovies.b>>)],
    [id |-> "action", title |-> "Action", style |-> "rail",
     movies |-> Vec(<<HomeMovies.b, HomeMovies.ab>>)],
    [id |-> "comedy", title |-> "Comedy", style |-> "rail", movies |-> Vec(<<>>)] }

MaxSections == 3

\* data.sections ?? []: any list of up to MaxSections different sections.
HomeFeeds ==
  { f \in UNION {[1..n -> HomeSectionPool] : n \in 0..MaxSections} :
      \A i, j \in 1..Len(f) : i # j => f[i] # f[j] }

\* What can be typed into the search box.
SearchTexts ==
  { <<>>, <<" ">>, <<"a">>, <<"A">>, <<"b">>, <<"a", "b">>, <<" ", "B", "a", " ">>,
    <<"a", "a">> }

\* fetchHomeFeed: the sections of the answer, or the error message when the
\* request fails.
fetchHomeFeed ==
  /\ mounted = "HomeScreen"
  /\ \E ok \in BOOLEAN :
       IF ok
       THEN /\ \E feed \in HomeFeeds : sections' = feed
            /\ error' = NULL
       ELSE /\ error' = Text(<<"Failed to load your personalized feed. Pull to refresh to try again.">>)
            /\ UNCHANGED sections
  /\ view' = HomeView(sections', search)
  /\ UNCHANGED search
  /\ UNCHANGED outsideHome

\* onChangeText={setSearch}
setSearch(text) ==
  /\ mounted = "HomeScreen"
  /\ search' = text
  /\ view' = HomeView(sections, search')
  /\ UNCHANGED <<sections, error>>
  /\ UNCHANGED outsideHome

\* ------------------------------------------------- BlendWithUserScreen

blendedOf_max(userPref, otherPref, vibe) ==
  LET s1 == cosine(userPref, vibe)
      s2 == cosine(otherPref, vibe)
  IN IF RLess(s1, s2) THEN s2 ELSE s1

blendedOf_skip_missing(userPref, otherPref, vibe) ==
  LET s1 == cosine(userPref, vibe)
      s2 == cosine(otherPref, vibe)
      present == (IF userPref = NULL THEN 0 ELSE 1) + (IF otherPref = NULL THEN 0 ELSE 1)
  IN IF present = 0 THEN RZero ELSE RDivInt(RAdd(s1, s2), present)

blendedOf_neutral_half(userPref, otherPref, vibe) ==
  IF userPref = NULL /\ otherPref = NULL THEN Rat(1, 2)
  ELSE RDivInt(RAdd(cosine(userPref, vibe), cosine(otherPref, vibe)), 2)

\* const blended = (s1 + s2) / 2
blendedOf(userPref, otherPref, vibe) ==
  LET s1 == cosine(userPref, vibe)
      s2 == cosine(otherPref, vibe)
  IN RDivInt(RAdd(s1, s2), 2)

\* (movieVibes || []).map(mv => ({ ...movie, similarity: blended }))
loadRows(userPref, otherPref, batch) ==
  [k \in 1..Len(batch) |->
     WithSimilarity(OrEmptyObject(batch[k].movie),
                    blendedOf(userPref, otherPref, batch[k].vibe_vector))]

\* The effect's load(): both preference rows, the movie batch, score, sort.
\* A rejected request lands in the catch block, which shows no rows.
load(other) ==
  /\ mounted = "BlendWithUserScreen"
  /\ id' = other
  /\ \E thrown \in BOOLEAN :
       movies' = IF thrown THEN <<>>
                 ELSE sort(loadRows(prefs[Me], prefs[other], movieVibes))
  /\ UNCHANGED <<mounted, prefs, movieVibes, selectedUsers, viewMode,
                 blendedMovies, blendedTopPicks, blendedCategories, alert,
                 participantIds, view>>
  /\ UNCHANGED outsideBlend

\* A stored preference vector with a component above 1, and the same vector
\* with that component at 1: both have whole norms (1.95 and 1.25).
PrefOutOfRange == Vec([Zeros(10) EXCEPT ![1] = 180, ![2] = 75])

PrefAtEdge == Vec([Zeros(10) EXCEPT ![1] = 100, ![2] = 75])

\* The rows user_preferences may hold when nothing has validated them.
UnvalidatedPrefPool == {NULL, PrefArthouse, PrefOutOfRange, PrefAtEdge}

InitUnvalidated ==
  /\ mounted = "BlendWithUserScreen"
  /\ prefs \in [Users -> UnvalidatedPrefPool]
  /\ movieVibes \in MovieBatches
  /\ id = NoUser
  /\ movies = <<>>
  /\ selectedUsers = <<>>
  /\ viewMode = "search"
  /\ blendedMovies = NULL
  /\ blendedTopPicks = NULL
  /\ blendedCategories = NULL
  /\ alert = "none"
  /\ participantIds = <<>>
  /\ storedVector = NULL
  /\ preferenceVector = NULL
  /\ profilePills = <<>>
  /\ movieVibe = NULL
  /\ moviePills = <<>>
  /\ viewerPref = NULL
  /\ whyThisText = NULL
  /\ sections = <<>>
  /\ search = <<>>
  /\ error = NULL
  /\ view = <<>>
  /\ QuizIdle
  /\ CosineIdle
  /\ ExtraIdle

NextUnvalidated == \E other \in Others : load(other)

SpecUnvalidated == InitUnvalidated /\ [][NextUnvalidated]_vars

\* ---------------------------------------------------------- BlendScreen

\* Alert.alert opens a modal dialog: nothing on the screen can be pressed
\* until its OK button has dismissed it.
IsBlendScreen ==
  /\ mounted \in {"BlendScreen", "LegacyBlendScreen"}
  /\ alert = "none"

\* The alert's OK button.
dismissAlert ==
  /\ alert # "none"
  /\ alert' = "none"
  /\ UNCHANGED <<mounted, prefs, movieVibes, id, movies, selectedUsers, viewMode,
                 blendedMovies, blendedTopPicks, blendedCategories, participantIds,
                 view>>
  /\ UNCHANGED outsideBlend

RECURSIVE Without(_, _)
Without(seq, x) ==
  IF seq = <<>> THEN <<>>
  ELSE IF Head(seq) = x THEN Without(Tail(seq), x)
       ELSE <<Head(seq)>> \o Without(Tail(seq), x)

InSeq(seq, x) == \E i \in 1..Len(seq) : seq[i] = x

\* Toggle a user in or out of the selection.
handleStartBlend(otherUser) ==
  /\ IsBlendScreen
  /\ selectedUsers' = IF InSeq(selectedUsers, otherUser)
                       THEN Without(selectedUsers, otherUser)
                       ELSE Append(selectedUsers, otherUser)
  /\ UNCHANGED <<mounted, prefs, movieVibes, id, movies, viewMode,
                 blendedMovies, blendedTopPicks, blendedCategories, alert,
                 participantIds, view>>
  /\ UNCHANGED outsideBlend

\* Both revisions: the selection and the results are dropped together.
clearSelection ==
  /\ IsBlendScreen
  /\ selectedUsers' = <<>>
  /\ viewMode' = "search"
  /\ IF mounted = "LegacyBlendScreen"
     THEN blendedMovies' = NULL /\ UNCHANGED <<blendedTopPicks, blendedCategories>>
     ELSE /\ blendedTopPicks' = NULL
          /\ blendedCategories' = NULL
          /\ UNCHANGED blendedMovies
  /\ participantIds' = <<>>
  /\ view' = IF mounted = "BlendScreen"
             THEN BlendView(viewMode', blendedTopPicks', blendedCategories')
             ELSE view
  /\ UNCHANGED <<mounted, prefs, movieVibes, id, movies, alert>>
  /\ UNCHANGED outsideBlend

\* [String(user.id), ...selectedUsers.map(s => String(s.id))]
ParticipantIds(selected) == <<Me>> \o selected

\* vec && Array.isArray(vec) && vec.length > 0
ValidPref(vec) == vec # NULL /\ Length(vec) > 0

\* prefById: only the rows with a usable vector are entered.
PrefById(pids) ==
  [p \in {q \in Users : InSeq(pids, q) /\ ValidPref(prefs[q])} |-> prefs[p]]

\* prefById[String(pid)] || null
PrefOf(prefById, pid) == IF pid \in DOMAIN prefById THEN prefById[pid] ELSE NULL

\* participantIds.filter(pid => !vec || !Array.isArray(vec) || vec.length === 0)
MissingPrefs(pids, prefById) ==
  {p \in Users : InSeq(pids, p) /\ ~ValidPref(PrefOf(prefById, p))}

\* The cosine written out inside the legacy computeBlended.
legacyCos(vec, vibe) ==
  LET dotv == dot(vec, vibe)
      normA == norm(vec)
      normB == norm(vibe)
  IN IF normA = 0 \/ normB = 0 THEN RZero ELSE Rat(dotv, normA * normB)

\* similarities: one entry per participant that has a vector.
RECURSIVE legacySimilarities(_, _, _)
legacySimilarities(pids, prefById, vibe) ==
  IF pids = <<>> THEN <<>>
  ELSE LET vec == PrefOf(prefById, Head(pids))
           rest == legacySimilarities(Tail(pids), prefById, vibe)
       IN IF vec # NULL /\ vibe # NULL
          THEN <<legacyCos(vec, vibe)>> \o rest
          ELSE rest

RECURSIVE RSum(_)
RSum(seq) == IF seq = <<>> THEN RZero ELSE RAdd(Head(seq), RSum(Tail(seq)))

\* similarities.length > 0 ? sum / similarities.length : 0
legacyBlended(pids, prefById, vibe) ==
  IF vibe = NULL THEN RZero
  ELSE LET similarities == legacySimilarities(pids, prefById, vibe)
       IN IF Len(similarities) > 0
          THEN RDivInt(RSum(similarities), Len(similarities))
          ELSE RZero

legacyRows(pids, prefById, batch) ==
  [k \in 1..Len(batch) |->
     WithSimilarity(OrEmptyObject(batch[k].movie),
                    legacyBlended(pids, prefById, batch[k].vibe_vector))]

\* Legacy revision: preferences, the missing-preferences check, then the
\* scores are computed on the client, sorted and shown.
computeBlendedLegacy ==
  /\ IsBlendScreen
  /\ mounted = "LegacyBlendScreen"
  \* The compute button is rendered only with somebody selected.
  /\ Len(selectedUsers) > 0
  /\ LET pids == ParticipantIds(selectedUsers)
         prefById == PrefById(pids)
     IN \E outcome \in {"noApiUrl", "prefsError", "thrown", "ok"} :
          CASE outcome = "noApiUrl" ->
                 /\ alert' = "Missing API base URL"
                 /\ UNCHANGED <<viewMode, blendedMovies, participantIds>>
            [] outcome = "prefsError" ->
                 /\ alert' = "Error"
                 /\ UNCHANGED <<viewMode, blendedMovies, participantIds>>
            [] outcome = "thrown" ->
                 /\ blendedMovies' = Vec(<<>>)
                 /\ participantIds' = <<>>
                 /\ UNCHANGED <<viewMode, alert>>
            [] outcome = "ok" ->
                 IF MissingPrefs(pids, prefById) # {}
                 THEN /\ alert' = "Missing Preferences"
                      /\ UNCHANGED <<viewMode, blendedMovies, participantIds>>
                 ELSE /\ blendedMovies' = Vec(sort(legacyRows(pids, prefById, movieVibes)))
                      /\ viewMode' = "results"
                      /\ participantIds' = pids
                      /\ UNCHANGED alert
  /\ UNCHANGED <<mounted, prefs, movieVibes, id, movies, selectedUsers,
                 blendedTopPicks, blendedCategories, view>>
  /\ UNCHANGED outsideBlend

\* What POST /v1/blend/recommendations may answer: the endpoint's code is not
\* part of the client, so its answer is any of a few shapes.
BlendResponses ==
  { [top_picks |-> <<>>, categories |-> <<>>],
    [top_picks |-> <<[id |-> 1, blend_score |-> ROne]>>, categories |-> <<>>],
    [top_picks |-> <<[id |-> 1, blend_score |-> ROne]>>,
     categories |-> <<[name |-> "Drama", rows |-> <<[id |-> 3, blend_score |-> RZero]>>]>>],
    [top_picks |-> <<>>,
     categories |-> <<[name |-> "Drama", rows |-> <<>>]>>],
    [top_picks |-> <<[id |-> 1, blend_score |-> Rat(3, 2)],
                     [id |-> 2, blend_score |-> Rat(-3, 10)]>>,
     categories |-> <<[name |-> "Drama", rows |-> <<[id |-> 3, blend_score |-> Rat(1, 8)]>>],
                      [name |-> "Action",
                       rows |-> <<[id |-> 2, blend_score |-> Rat(-3, 10)],
                                  [id |-> 4, blend_score |-> NULL]>>]>>] }

\* Current revision: preferences, the missing-preferences check, then the
\* backend computes the blend.
computeBlended ==
  /\ IsBlendScreen
  /\ mounted = "BlendScreen"
  \* The compute button is rendered only with somebody selected.
  /\ Len(selectedUsers) > 0
  /\ LET pids == ParticipantIds(selectedUsers)
         prefById == PrefById(pids)
     IN \E outcome \in {"noApiUrl", "prefsError", "thrown", "blendNotOk", "ok"} :
          CASE outcome = "noApiUrl" ->
                 /\ alert' = "Missing API base URL"
                 /\ UNCHANGED <<viewMode, blendedTopPicks, blendedCategories, participantIds>>
            [] outcome = "prefsError" ->
                 /\ alert' = "Error"
                 /\ UNCHANGED <<viewMode, blendedTopPicks, blendedCategories, participantIds>>
            [] outcome = "thrown" ->
                 /\ blendedTopPicks' = Vec(<<>>)
                 /\ blendedCategories' = Obj(<<>>)
                 /\ participantIds' = <<>>
                 /\ UNCHANGED <<viewMode, alert>>
            [] outcome \in {"blendNotOk", "ok"} ->
                 IF MissingPrefs(pids, prefById) # {}
                 THEN /\ alert' = "Missing Preferences"
                      /\ UNCHANGED <<viewMode, blendedTopPicks, blendedCategories,
                                     participantIds>>
                 ELSE IF outcome = "blendNotOk"
                 THEN /\ alert' = "Error"
                      /\ UNCHANGED <<viewMode, blendedTopPicks, blendedCategories,
                                     participantIds>>
                 ELSE /\ \E r \in BlendResponses :
                           /\ blendedTopPicks' = Vec(r.top_picks)
                           /\ blendedCategories' = Obj(r.categories)
                      /\ viewMode' = "results"
                      /\ participantIds' = pids
                      /\ UNCHANGED alert
  /\ view' = BlendView(viewMode', blendedTopPicks', blendedCategories')
  /\ UNCHANGED <<mounted, prefs, movieVibes, id, movies, selectedUsers,
                 blendedMovies>>
  /\ UNCHANGED outsideBlend

\* ------------------------------------------------------------- blending

Init ==
  /\ mounted \in {"BlendWithUserScreen", "BlendScreen", "LegacyBlendScreen", "HomeScreen"}
  \* The home screen reads no preference row: its feed comes scored.
  /\ prefs \in IF mounted = "HomeScreen" THEN {[u \in Users |-> NULL]}
               ELSE [Users -> PrefPool]
  \* The current BlendScreen never queries movie_vibes: the backend scores.
  /\ movieVibes \in IF mounted \in {"BlendScreen", "HomeScreen"} THEN {<<>>}
                    ELSE MovieBatches
  /\ id = NoUser
  /\ movies = <<>>
  /\ selectedUsers = <<>>
  /\ viewMode = "search"
  /\ blendedMovies = NULL
  /\ blendedTopPicks = NULL
  /\ blendedCategories = NULL
  /\ alert = "none"
  /\ participantIds = <<>>
  /\ storedVector = NULL
  /\ preferenceVector = NULL
  /\ profilePills = <<>>
  /\ movieVibe = NULL
  /\ moviePills = <<>>
  /\ viewerPref = NULL
  /\ whyThisText = NULL
  /\ sections = <<>>
  /\ search = <<>>
  /\ error = NULL
  /\ view = <<>>
  /\ finalAnswers = <<>>
  /\ payloadVector = NULL
  /\ quizError = NULL
  /\ route = "/(tabs)"
  /\ operandA = NULL
  /\ operandB = NULL
  /\ cosineResult = NULL
  /\ ExtraIdle

Next ==
  \/ \E other \in Others : load(other)
  \/ \E otherUser \in Others : handleStartBlend(otherUser)
  \/ clearSelection
  \/ computeBlendedLegacy
  \/ computeBlended
  \/ dismissAlert
  \/ fetchHomeFeed
  \/ \E text \in SearchTexts : setSearch(text)

Spec == Init /\ [][Next]_vars

\* ------------------------------------------------------------- vibe quiz

\* The ten questions: option A is the axis's negative pole, option B its
\* positive pole.
QUESTIONS ==
  << [id |-> "mainstream_vs_arthouse", axisIndex |-> 0,
      optionA |-> "Big studio release everyone is talking about",
      optionB |-> "Weird little festival film nobody has heard of"],
     [id |-> "light_vs_dark", axisIndex |-> 1,
      optionA |-> "Light, fun, easy to watch",
      optionB |-> "Heavy, emotional, intense"],
     [id |-> "fast_vs_slow", axisIndex |-> 2,
      optionA |-> "Fast, punchy, always moving",
      optionB |-> "Slow-burn, simmer and build"],
     [id |-> "plot_vs_character", axisIndex |-> 3,
      optionA |-> "Plot twists and story mechanics",
      optionB |-> "Characters and their inner lives"],
     [id |-> "action_vs_dialogue", axisIndex |-> 4,
      optionA |-> "Action, spectacle, big set pieces",
      optionB |-> "Dialogue, conversations, subtext"],
     [id |-> "old_vs_new", axisIndex |-> 5,
      optionA |-> "Older stuff, classics, pre-2000",
      optionB |-> "Mostly recent releases"],
     [id |-> "real_vs_fantastical", axisIndex |-> 6,
      optionA |-> "Grounded, realistic stories",
      optionB |-> "Sci-fi, fantasy, surreal worlds"],
     [id |-> "optimistic_vs_bleak", axisIndex |-> 7,
      optionA |-> "Hopeful, uplifting, some kind of win",
      optionB |-> "Bleak, ambiguous, might wreck me"],
     [id |-> "short_vs_epic", axisIndex |-> 8,
      optionA |-> "Tight 90-110 minute movies",
      optionB |-> "Epic 2.5-3 hour sagas"],
     [id |-> "comfort_vs_challenging", axisIndex |-> 9,
      optionA |-> "Comfort rewatch, cozy background",
      optionB |-> "New, weird, challenging watch"] >>

totalQuestions == Len(QUESTIONS)

\* answerMap[q.id]: the choice, or undefined for a question not answered.
AnswerOf(answerMap, qid) ==
  IF qid \in DOMAIN answerMap THEN answerMap[qid] ELSE "undefined"

\* QUESTIONS.forEach: A writes -1.0, B writes 1.0, anything else 0.0, at the
\* question's axis index.
RECURSIVE FillFrom(_, _, _)
FillFrom(vector, answerMap, n) ==
  IF n > Len(QUESTIONS) THEN vector
  ELSE LET q == QUESTIONS[n]
           ans == AnswerOf(answerMap, q.id)
           value == IF ans = "A" THEN -100 ELSE IF ans = "B" THEN 100 ELSE 0
       IN FillFrom([vector EXCEPT ![q.axisIndex + 1] = value], answerMap, n + 1)

buildPreferenceVector_flipped(answerMap) ==
  Vec([k \in 1..totalQuestions |-> 0 - FillFrom(Zeros(totalQuestions), answerMap, 1)[k]])

buildPreferenceVector(answerMap) == Vec(FillFrom(Zeros(totalQuestions), answerMap, 1))

\* The answer maps handleSubmit may be handed: each question answered A,
\* answered B or not answered.
AnswerMaps ==
  UNION { [D -> {"A", "B"}] : D \in SUBSET {QUESTIONS[n].id : n \in 1..Len(QUESTIONS)} }

\* handleSubmit(finalAnswers): without a session the error is shown; else the
\* vector is built and posted (unless no API URL is configured), a refused
\* post or a thrown error shows an error, and success replaces the route.
handleSubmit ==
  /\ mounted = "VibeQuizScreen"
  /\ route = "/vibe-quiz"
  /\ \E outcome \in {"noSession", "noApiUrl", "notOk", "thrown", "ok"} :
       CASE outcome = "noSession" ->
              /\ quizError' = Text(<<"We could not verify your session. Please try again.">>)
              /\ UNCHANGED <<payloadVector, route>>
         [] outcome = "notOk" ->
              /\ payloadVector' = buildPreferenceVector(finalAnswers)
              /\ quizError' = Text(<<"Something went wrong saving your preferences. Please try again.">>)
              /\ UNCHANGED route
         [] outcome = "thrown" ->
              /\ payloadVector' = buildPreferenceVector(finalAnswers)
              /\ quizError' = Text(<<"Unexpected error. Please try again.">>)
              /\ UNCHANGED route
         [] outcome \in {"noApiUrl", "ok"} ->
              /\ payloadVector' = buildPreferenceVector(finalAnswers)
              /\ route' = "/(tabs)"
              /\ UNCHANGED quizError
  /\ UNCHANGED finalAnswers
  /\ UNCHANGED outsideQuiz

InitQuiz ==
  /\ mounted = "VibeQuizScreen"
  /\ prefs = [u \in Users |-> NULL]
  /\ movieVibes = <<>>
  /\ id = NoUser
  /\ movies = <<>>
  /\ selectedUsers = <<>>
  /\ viewMode = "search"
  /\ blendedMovies = NULL
  /\ blendedTopPicks = NULL
  /\ blendedCategories = NULL
  /\ alert = "none"
  /\ participantIds = <<>>
  /\ storedVector = NULL
  /\ preferenceVector = NULL
  /\ profilePills = <<>>
  /\ movieVibe = NULL
  /\ moviePills = <<>>
  /\ viewerPref = NULL
  /\ whyThisText = NULL
  /\ sections = <<>>
  /\ search = <<>>
  /\ error = NULL
  /\ view = <<>>
  /\ finalAnswers \in AnswerMaps
  /\ payloadVector = NULL
  /\ quizError = NULL
  /\ route = "/vibe-quiz"
  /\ operandA = NULL
  /\ operandB = NULL
  /\ cosineResult = NULL
  /\ ExtraIdle

NextQuiz == handleSubmit

SpecQuiz == InitQuiz /\ [][NextQuiz]_vars

\* ------------------------------------------------------------- pills

\* The default of addAxis's threshold parameter, 0.35.
threshold == 35

\* pills.slice(0, 4)
maxPills == 4

addAxis_inclusive(pills, v, i, positive, negative) ==
  IF Has(v, i) /\ v.items[i + 1] >= threshold THEN Append(pills, positive)
  ELSE IF Has(v, i) /\ v.items[i + 1] <= -threshold THEN Append(pills, negative)
  ELSE pills

\* addAxis(v[i], positive, negative): the positive label above the threshold,
\* else the negative label below its negation; v[i] past the end is
\* undefined, and no comparison with undefined is true.
addAxis(pills, v, i, positive, negative) ==
  IF Has(v, i) /\ v.items[i + 1] > threshold THEN Append(pills, positive)
  ELSE IF Has(v, i) /\ v.items[i + 1] < -threshold THEN Append(pills, negative)
  ELSE pills

\* The addAxis calls of the profile screens, in the order they are made.
ProfileAxes ==
  << [i |-> 0, positive |-> "Arthouse lean", negative |-> "Mainstream crowd-pleaser"],
     [i |-> 1, positive |-> "Dark & moody", negative |-> "Light & feel-good"],
     [i |-> 2, positive |-> "Slow-burn stories", negative |-> "Fast-paced energy"],
     [i |-> 6, positive |-> "Fantastical worlds", negative |-> "Grounded & realistic"],
     [i |-> 7, positive |-> "Optimistic endings", negative |-> "Bleak & heavy"],
     [i |-> 9, positive |-> "Comfort rewatches", negative |-> "Challenging watches"] >>

\* The add calls of the movie details modal, in the order they are made.
MovieAxes ==
  << [i |-> 0, positive |-> "Arthouse", negative |-> "Mainstream"],
     [i |-> 1, positive |-> "Dark Tone", negative |-> "Light Tone"],
     [i |-> 2, positive |-> "Slow Burn", negative |-> "Fast Paced"],
     [i |-> 6, positive |-> "Fantastical", negative |-> "Grounded"],
     [i |-> 9, positive |-> "Comfort Watch", negative |-> "Challenging"] >>

\* The pills array after the first n calls.
RECURSIVE PillsAfter(_, _, _)
PillsAfter(axes, v, n) ==
  IF n = 0 THEN <<>>
  ELSE addAxis(PillsAfter(axes, v, n - 1), v, axes[n].i,
               axes[n].positive, axes[n].negative)

\* pills.slice(0, 4)
Slice(pills, n) == SubSeq(pills, 1, IF Len(pills) < n THEN Len(pills) ELSE n)

\* The axes whose value is past the threshold, as positions in axes.
ActiveAxes(axes, v) ==
  {n \in 1..Len(axes) : Has(v, axes[n].i) /\ Abs(v.items[axes[n].i + 1]) > threshold}

RECURSIVE PillsOf(_, _, _, _)
PillsOf(axes, v, keep, n) ==
  IF n = 0 THEN <<>>
  ELSE IF n \in keep
       THEN addAxis(PillsOf(axes, v, keep, n - 1), v, axes[n].i,
                    axes[n].positive, axes[n].negative)
       ELSE PillsOf(axes, v, keep, n - 1)

vibePills_strongest(v) ==
  IF v = NULL \/ Length(v) < 10 THEN <<>>
  ELSE LET act == ActiveAxes(ProfileAxes, v)
           mag(n) == Abs(v.items[ProfileAxes[n].i + 1])
           keep == {n \in act :
                      Cardinality({m \in act : mag(m) > mag(n) \/ (mag(m) = mag(n) /\ m < n)})
                        < maxPills}
       IN  PillsOf(ProfileAxes, v, keep, Len(ProfileAxes))

\* ProfileScreen's vibePills (the same code serves the other user's profile):
\* nothing without a vector or with fewer than 10 components.
vibePills(v) ==
  IF v = NULL \/ Length(v) < 10 THEN <<>>
  ELSE Slice(PillsAfter(ProfileAxes, v, Len(ProfileAxes)), maxPills)

\* MovieDetailsModal's vibePills: nothing without a vector.
movieVibePills(v) ==
  IF v = NULL THEN <<>>
  ELSE Slice(PillsAfter(MovieAxes, v, Len(MovieAxes)), maxPills)

\* The axes some screen derives a pill from.
PillAxes == {0, 1, 2, 6, 7, 9}

\* Vectors whose pill axes sit at, just inside and just outside the threshold.
ThresholdVectors ==
  { Vec([k \in 1..10 |-> IF k - 1 \in PillAxes THEN f[k - 1] ELSE 0]) :
      f \in [PillAxes -> {-36, -35, 0, 35, 36}] }

\* The ids of the questions on the pill axes.
PillQuestionIds ==
  {QUESTIONS[n].id : n \in {m \in 1..Len(QUESTIONS) : QUESTIONS[m].axisIndex \in PillAxes}}

\* Vectors the quiz saves: any answers to the questions on the pill axes.
QuizVectors ==
  { buildPreferenceVector(a) : a \in UNION {[D -> {"A", "B"}] : D \in SUBSET PillQuestionIds} }

\* Vectors of a wrong length: empty, 3, 9 and 11 components.
MalformedVectors ==
  { Vec(<<>>), Vec(<<100, -100, 100>>),
    Vec([k \in 1..9 |-> 100]),
    Vec([k \in 1..11 |-> IF k \in {1, 10} THEN 100 ELSE 0]) }

\* Vectors whose pill axes are all past the threshold, weakly or strongly.
MagnitudeVectors ==
  { Vec([k \in 1..10 |-> IF k - 1 \in PillAxes THEN f[k - 1] ELSE 0]) :
      f \in [PillAxes -> {-100, 40, 100}] }

StoredVectors ==
  {NULL} \cup ThresholdVectors \cup QuizVectors \cup MalformedVectors
    \cup MagnitudeVectors

\* loadProfile: the stored vector is taken when the row has one.
loadProfile ==
  /\ preferenceVector' = IF storedVector # NULL THEN storedVector ELSE preferenceVector
  /\ profilePills' = vibePills(preferenceVector')
  /\ UNCHANGED <<storedVector, movieVibe, moviePills, viewerPref, whyThisText>>
  /\ UNCHANGED outsidePills

\* The axes of the modal's "why this" sentence, in the order they are listed.
WhyAxes ==
  << [i |-> 0, pos |-> "artsy films", neg |-> "mainstream hits"],
     [i |-> 1, pos |-> "dark tones", neg |-> "lighter moods"],
     [i |-> 2, pos |-> "slow-burn pacing", neg |-> "fast energy"],
     [i |-> 6, pos |-> "fantastical worlds", neg |-> "grounded stories"],
     [i |-> 9, pos |-> "comfort films", neg |-> "challenging cinema"] >>

\* axes.map(a => ({...a, score: (userPref[a.i] || 0) * (movieVibe[a.i] || 0)}))
\* The score is in ten-thousandths.
Scores(pref, vibe) ==
  [n \in 1..Len(WhyAxes) |->
     [i |-> WhyAxes[n].i, pos |-> WhyAxes[n].pos, neg |-> WhyAxes[n].neg,
      score |-> OrZero(pref, WhyAxes[n].i) * OrZero(vibe, WhyAxes[n].i)]]

\* Insert x after every entry whose |score| is not smaller.
RECURSIVE InsertByAbs(_, _)
InsertByAbs(sorted, x) ==
  IF sorted = <<>> THEN <<x>>
  ELSE IF Abs(x.score) - Abs(Head(sorted).score) > 0
       THEN <<x>> \o sorted
       ELSE <<Head(sorted)>> \o InsertByAbs(Tail(sorted), x)

\* scores.sort((a, b) => Math.abs(b.score) - Math.abs(a.score)), stable.
RECURSIVE SortByAbsFrom(_, _)
SortByAbsFrom(sorted, rest) ==
  IF rest = <<>> THEN sorted
  ELSE SortByAbsFrom(InsertByAbs(sorted, Head(rest)), Tail(rest))

\* top.map(...).join(' and ')
RECURSIVE Join(_, _)
Join(parts, sep) ==
  IF Len(parts) <= 1 THEN parts
  ELSE <<Head(parts), sep>> \o Join(Tail(parts), sep)

PhraseOf(t) == IF t.score > 0 THEN t.pos ELSE t.neg

Sentence(top) ==
  Text(<<"Because you tend to enjoy ">>
         \o Join([k \in 1..Len(top) |-> PhraseOf(top[k])], " and ")
         \o <<", this movie aligns strongly with your taste.">>)

\* The sentence with each phrase chosen by the sign of the movie's value.
whyThis_item_sign(pref, vibe) ==
  IF vibe = NULL \/ pref = NULL THEN NULL
  ELSE LET top == Slice(SortByAbsFrom(<<>>, Scores(pref, vibe)), 2)
       IN  Text(<<"Because you tend to enjoy ">>
                  \o Join([k \in 1..Len(top) |->
                             IF OrZero(vibe, top[k].i) > 0 THEN top[k].pos
                             ELSE top[k].neg], " and ")
                  \o <<", this movie aligns strongly with your taste.">>)

\* MovieDetailsModal's whyThisText.
whyThis(pref, vibe) ==
  IF vibe = NULL \/ pref = NULL THEN NULL
  ELSE LET top == Slice(SortByAbsFrom(<<>>, Scores(pref, vibe)), 2)
       IN  IF Len(top) = 0 THEN NULL ELSE Sentence(top)

\* loadDetails: setMovieVibe(vibeData?.vibe_vector || null),
\* setUserPref(prefData?.preference_vector || null); the pills and the
\* sentence are recomputed from them.
loadDetails ==
  /\ movieVibe' = storedVector
  /\ viewerPref' = prefs[Me]
  /\ moviePills' = movieVibePills(movieVibe')
  /\ whyThisText' = whyThis(viewerPref', movieVibe')
  /\ UNCHANGED <<storedVector, preferenceVector, profilePills>>
  /\ UNCHANGED outsidePills

\* A vector with weak and strong values of both signs on the sentence's axes.
PrefWide == Vec(<<-100, 50, 100, 0, 0, 0, 100, 0, 0, -50>>)

\* The viewer's stored vector on the pill screens.
WhyPrefPool == PrefPool \cup {PrefWide}

InitPills ==
  /\ mounted = "ProfileScreen"
  /\ \E p \in WhyPrefPool : prefs = [u \in Users |-> IF u = Me THEN p ELSE NULL]
  /\ movieVibes = <<>>
  /\ id = NoUser
  /\ movies = <<>>
  /\ selectedUsers = <<>>
  /\ viewMode = "search"
  /\ blendedMovies = NULL
  /\ blendedTopPicks = NULL
  /\ blendedCategories = NULL
  /\ alert = "none"
  /\ participantIds = <<>>
  /\ storedVector \in StoredVectors
  /\ preferenceVector = NULL
  /\ profilePills = <<>>
  /\ movieVibe = NULL
  /\ moviePills = <<>>
  /\ viewerPref = NULL
  /\ whyThisText = NULL
  /\ sections = <<>>
  /\ search = <<>>
  /\ error = NULL
  /\ view = <<>>
  /\ finalAnswers = <<>>
  /\ payloadVector = NULL
  /\ quizError = NULL
  /\ route = "/(tabs)"
  /\ operandA = NULL
  /\ operandB = NULL
  /\ cosineResult = NULL
  /\ ExtraIdle

NextPills ==
  \/ loadProfile
  \/ loadDetails

SpecPills == InitPills /\ [][NextPills]_vars

\* ------------------------------------------------------------- cosine

\* The most components an argument of cosine has here.
MaxAxes == 3

\* The arguments drawn: null, the empty vector, and the vectors of one and
\* of MaxAxes components, each -1, 0 or 1 as the quiz writes them.
WholeVectors ==
  {NULL} \cup { Vec(f) : f \in UNION { [1..k -> {-1, 0, 1}] : k \in {0, 1, MaxAxes} } }

\* One call cosine(a, b), computed as the JavaScript engine computes it.
callCosine ==
  /\ mounted = "cosine"
  /\ cosineResult = NULL
  /\ cosineResult' = cosineDouble(operandA, operandB)
  /\ UNCHANGED <<operandA, operandB>>
  /\ UNCHANGED outsideCosine

InitCosine ==
  /\ mounted = "cosine"
  /\ prefs = [u \in Users |-> NULL]
  /\ movieVibes = <<>>
  /\ id = NoUser
  /\ movies = <<>>
  /\ selectedUsers = <<>>
  /\ viewMode = "search"
  /\ blendedMovies = NULL
  /\ blendedTopPicks = NULL
  /\ blendedCategories = NULL
  /\ alert = "none"
  /\ participantIds = <<>>
  /\ storedVector = NULL
  /\ preferenceVector = NULL
  /\ profilePills = <<>>
  /\ movieVibe = NULL
  /\ moviePills = <<>>
  /\ viewerPref = NULL
  /\ whyThisText = NULL
  /\ sections = <<>>
  /\ search = <<>>
  /\ error = NULL
  /\ view = <<>>
  /\ finalAnswers = <<>>
  /\ payloadVector = NULL
  /\ quizError = NULL
  /\ route = "/(tabs)"
  /\ operandA \in WholeVectors
  /\ operandB \in WholeVectors
  /\ cosineResult = NULL
  /\ ExtraIdle

NextCosine == callCosine

SpecCosine == InitCosine /\ [][NextCosine]_vars

\* k * a, null staying null.
Scale(k, a) ==
  IF a = NULL THEN NULL ELSE Vec([i \in 1..Length(a) |-> k * a.items[i]])

\* The factors drawn. Scaling by a power of two is exact in doubles, so the
\* whole numbers here stand as well for the same vectors in quarters or
\* sixteenths, which lie in [-1, 1].
Factors == {2, 3}

\* The scaled arguments drawn: null and the vectors of one component.
ScaledVectors == {NULL} \cup { Vec(<<c>>) : c \in {-1, 0, 1} }

\* One call cosine(k * a, b).
callCosineScaled ==
  /\ mounted = "cosine"
  /\ scaledResult = NULL
  /\ scaledResult' = cosineDouble(Scale(factor, operandA), operandB)
  /\ UNCHANGED <<cosineVars, factor>>
  /\ UNCHANGED outsideScale

InitScale ==
  /\ ScreensIdle("cosine")
  /\ QuizIdle
  /\ operandA \in ScaledVectors
  /\ operandB \in WholeVectors
  /\ cosineResult = NULL
  /\ factor \in Factors
  /\ scaledResult = NULL
  /\ LoaderIdle
  /\ FlowIdle
  /\ GateIdle
  /\ TabIdle

NextScale ==
  \/ callCosine
  \/ callCosineScaled

SpecScale == InitScale /\ [][NextScale]_vars

\* ------------------------------------------------------- LoadingProvider

Max(x, y) == IF x < y THEN y ELSE x

Min(x, y) == IF x < y THEN x ELSE y

\* showLoading(msg): one more holder, the overlay on, the message replaced
\* when one is given.
showLoading(l, msg) ==
  [count |-> l.count + 1, isLoading |-> TRUE,
   message |-> IF msg = "" THEN l.message ELSE msg]

\* hideLoading(): one holder less, never below 0; at 0 the overlay goes off
\* and the message is dropped.
hideLoading(l) ==
  LET next == Max(0, l.count - 1)
  IN IF next = 0
       THEN [count |-> next, isLoading |-> FALSE, message |-> "undefined"]
       ELSE [l EXCEPT !.count = next]

\* ----------------------------------------------------- VibeQuizScreen flow

\* The most calls of handleSubmit under way at once.
MaxSubmissions == 2

\* Either option is pressed on the last FreeQuestions questions, option A on
\* the ones before.
FreeQuestions == 2

Choices(index) ==
  IF index >= totalQuestions - FreeQuestions THEN {"A", "B"} ELSE {"A"}

Remove(seq, k) == SubSeq(seq, 1, k - 1) \o SubSeq(seq, k + 1, Len(seq))

\* The submissions of a quiz that has unmounted: they run on, their
\* setError and setSubmitting reach no screen.
Orphaned(subs) == [k \in DOMAIN subs |-> [subs[k] EXCEPT !.live = FALSE]]

\* The quiz is on screen and can be pressed: the loader's overlay covers
\* the whole screen while it shows.
QuizOnScreen ==
  /\ mounted \in {"VibeQuizScreen", "RootLayout"}
  /\ ~authLoading /\ ~bootLoading
  /\ route = "/vibe-quiz"
  /\ ~loader.isLoading

\* { ...answers, [currentQuestion.id]: choice }
WithChoice(answerMap, index, choice) ==
  (QUESTIONS[index + 1].id :> choice) @@ answerMap

\* A call of handleSubmit up to its first await: its argument, where it
\* waits, its preferenceVector (not built yet), and whether the quiz that
\* made the call is still mounted.
Submission(finalAnswers_) ==
  [finalAnswers |-> finalAnswers_, pc |-> "getSession",
   preferenceVector |-> NULL, live |-> TRUE]

\* handleSelect(choice), the screen rendered since the last press: the
\* answer is recorded, the error cleared, and either the next question is
\* shown or, on the last question, handleSubmit is called.
handleSelect(choice) ==
  /\ QuizOnScreen
  /\ ~submitting
  /\ answers' = WithChoice(answers, currentIndex, choice)
  /\ quizError' = NULL
  /\ IF currentIndex # totalQuestions - 1
       THEN /\ currentIndex' = Min(totalQuestions - 1, currentIndex + 1)
            /\ UNCHANGED <<submitting, submissions, loader>>
       ELSE /\ Len(submissions) < MaxSubmissions
            /\ submitting' = TRUE
            /\ loader' = showLoading(loader, "Locking in your vibe...")
            /\ submissions' = Append(submissions,
                                     Submission(WithChoice(answers, currentIndex, choice)))
            /\ UNCHANGED currentIndex
  /\ UNCHANGED <<apiUrlSet, finalAnswers, payloadVector, route, prefs>>
  /\ UNCHANGED outsideFlow

\* Two presses handled before the screen renders again: both handlers hold
\* the currentIndex, currentQuestion and answers of the same render, while
\* the updater functions of setAnswers and setCurrentIndex run in turn.
handleSelectTwice(first, second) ==
  /\ QuizOnScreen
  /\ ~submitting
  /\ answers' = WithChoice(WithChoice(answers, currentIndex, first), currentIndex, second)
  /\ quizError' = NULL
  /\ IF currentIndex # totalQuestions - 1
       THEN /\ currentIndex' = Min(totalQuestions - 1,
                                   Min(totalQuestions - 1, currentIndex + 1) + 1)
            /\ UNCHANGED <<submitting, submissions, loader>>
       ELSE /\ Len(submissions) + 1 < MaxSubmissions
            /\ submitting' = TRUE
            /\ loader' = showLoading(showLoading(loader, "Locking in your vibe..."),
                                     "Locking in your vibe...")
            /\ submissions' = submissions \o
                 << Submission(WithChoice(answers, currentIndex, first)),
                    Submission(WithChoice(answers, currentIndex, second)) >>
            /\ UNCHANGED currentIndex
  /\ UNCHANGED <<apiUrlSet, finalAnswers, payloadVector, route, prefs>>
  /\ UNCHANGED outsideFlow

\* router.replace or router.push to target, subs being the calls of
\* handleSubmit still under way: leaving the quiz's route unmounts the quiz,
\* whose state is gone, and its calls run on without a screen.
GoTo(target, subs) ==
  /\ route' = target
  /\ IF route = "/vibe-quiz" /\ target # "/vibe-quiz"
       THEN /\ submissions' = Orphaned(subs)
            /\ currentIndex' = 0
            /\ answers' = <<>>
            /\ quizError' = NULL
            /\ submitting' = FALSE
       ELSE /\ submissions' = subs
            /\ UNCHANGED <<currentIndex, answers, quizError, submitting>>

\* handleBackQuestion(): the previous question, or from the first one the
\* profile setup.
handleBackQuestion ==
  /\ QuizOnScreen
  /\ IF currentIndex = 0
       THEN GoTo("/profile-setup", submissions)
       ELSE /\ currentIndex' = Max(0, currentIndex - 1)
            /\ UNCHANGED <<route, submissions, answers, quizError, submitting>>
  /\ UNCHANGED <<loader, apiUrlSet, finalAnswers, payloadVector, prefs>>
  /\ UNCHANGED outsideFlow

\* The end of a call of handleSubmit that set an error: setError, then the
\* finally block.
Failed(k, message) ==
  /\ submissions' = Remove(submissions, k)
  /\ IF submissions[k].live
       THEN /\ quizError' = message
            /\ submitting' = FALSE
       ELSE UNCHANGED <<quizError, submitting>>
  /\ loader' = hideLoading(loader)
  /\ UNCHANGED <<route, currentIndex, answers>>

\* The end of a call of handleSubmit that reached router.replace('/(tabs)'),
\* then the finally block.
Replaced(k) ==
  /\ GoTo("/(tabs)", Remove(submissions, k))
  /\ loader' = hideLoading(loader)

\* supabase.auth.getSession() settles for the k-th call under way: without
\* a session, or on a rejection, the error is set; with one the payload is
\* built and posted, or, with no API URL, the post is skipped and the route
\* replaced.
sessionSettles(k, outcome) ==
  /\ k \in DOMAIN submissions
  /\ submissions[k].pc = "getSession"
  /\ CASE outcome = "noSession" ->
            /\ Failed(k, Text(<<"We could not verify your session. Please try again.">>))
            /\ UNCHANGED <<finalAnswers, payloadVector>>
       [] outcome = "thrown" ->
            /\ Failed(k, Text(<<"Unexpected error. Please try again.">>))
            /\ UNCHANGED <<finalAnswers, payloadVector>>
       [] outcome = "session" ->
            /\ IF apiUrlSet
                 THEN /\ submissions' =
                           [submissions EXCEPT
                              ![k].pc = "fetch",
                              ![k].preferenceVector =
                                 buildPreferenceVector(submissions[k].finalAnswers)]
                      /\ UNCHANGED <<route, loader, currentIndex, answers,
                                     quizError, submitting>>
                 ELSE Replaced(k)
            /\ UNCHANGED <<finalAnswers, payloadVector>>
  /\ UNCHANGED <<apiUrlSet, prefs>>
  /\ UNCHANGED outsideFlow

\* The POST to /v1/preferences/quiz settles for the k-th call under way: a
\* response that is not ok, or a rejection, sets the error; an ok response
\* means the backend stored the vector, and the route is replaced.
fetchSettles(k, outcome) ==
  /\ k \in DOMAIN submissions
  /\ submissions[k].pc = "fetch"
  /\ CASE outcome = "notOk" ->
            /\ Failed(k, Text(<<"Something went wrong saving your preferences. Please try again.">>))
            /\ UNCHANGED prefs
       [] outcome = "thrown" ->
            /\ Failed(k, Text(<<"Unexpected error. Please try again.">>))
            /\ UNCHANGED prefs
       [] outcome = "ok" ->
            /\ Replaced(k)
            /\ prefs' = [prefs EXCEPT ![Me] = submissions[k].preferenceVector]
  /\ UNCHANGED <<apiUrlSet, finalAnswers, payloadVector>>
  /\ UNCHANGED outsideFlow

InitFlow ==
  /\ ScreensIdle("VibeQuizScreen")
  /\ finalAnswers = <<>>
  /\ payloadVector = NULL
  /\ quizError = NULL
  /\ route = "/vibe-quiz"
  /\ CosineIdle
  /\ ScaleIdle
  /\ LoaderIdle
  /\ currentIndex = 0
  /\ answers = <<>>
  /\ submitting = FALSE
  /\ submissions = <<>>
  /\ apiUrlSet \in BOOLEAN
  /\ GateIdle
  /\ TabIdle

NextFlow ==
  \/ \E choice \in Choices(currentIndex) : handleSelect(choice)
  \/ \E first, second \in Choices(currentIndex) : handleSelectTwice(first, second)
  \/ handleBackQuestion
  \/ \E k \in 1..MaxSubmissions :
       \E outcome \in {"noSession", "thrown", "session"} : sessionSettles(k, outcome)
  \/ \E k \in 1..MaxSubmissions :
       \E outcome \in {"notOk", "thrown", "ok"} : fetchSettles(k, outcome)

SpecFlow == InitFlow /\ [][NextFlow]_vars

\* ------------------------------------------------ AuthProvider, AuthGate

\* The most calls of the auth listener followed.
MaxAuthEvents == 2

\* The routes followed; the tabs stand for every route of the (tabs) group.
Routes == {"/(auth)/login", "/(tabs)", "/profile-setup", "/vibe-quiz", "/user/[id]"}

\* segments[0] on a route.
RootSegment(r) ==
  CASE r = "/(auth)/login" -> "(auth)"
    [] r = "/(tabs)" -> "(tabs)"
    [] r = "/profile-setup" -> "(profile-setup)"
    [] r = "/vibe-quiz" -> "(vibe-quiz)"
    [] r = "/user/[id]" -> "user"

\* AuthGate renders <Slot /> only after auth loading and bootstrap.
SlotShown == ~authLoading /\ ~bootLoading

\* AuthProvider's init(): getSession settles and the three setters run.
authInit ==
  /\ mounted = "RootLayout"
  /\ authLoading
  /\ isAuthenticated' = session
  /\ user' = IF session THEN "object" ELSE "null"
  /\ authLoading' = FALSE
  /\ bootstrapDue' = TRUE
  /\ UNCHANGED <<session, authEvents, bootLoading, hasProfile, hasPreferences,
                 boots, profileRow>>
  /\ UNCHANGED <<loader, route, quizError, flowVars>>
  /\ UNCHANGED outsideGate

\* The onAuthStateChange listener is called: a sign-in or a refreshed token
\* carries a session with a new user object, a sign-out or an expired
\* session carries none. The bootstrap effect's dependencies change unless
\* every setter sets what is there already.
authStateChange(withSession) ==
  /\ mounted = "RootLayout"
  /\ authEvents < MaxAuthEvents
  /\ authEvents' = authEvents + 1
  /\ session' = withSession
  /\ isAuthenticated' = withSession
  /\ user' = IF withSession THEN "object" ELSE "null"
  /\ bootstrapDue' = (bootstrapDue \/ withSession \/ isAuthenticated \/ user # "null")
  /\ UNCHANGED <<authLoading, bootLoading, hasProfile, hasPreferences, boots,
                 profileRow>>
  /\ UNCHANGED <<loader, route, quizError, flowVars>>
  /\ UNCHANGED outsideGate

\* A call of bootstrap up to its first await.
Boot == [pc |-> "profile"]

\* The bootstrap effect runs: nothing while auth is loading; without a user
\* the flags are cleared and hideLoading is called; with one showLoading is
\* called and the profile is queried.
bootstrapEffect ==
  /\ mounted = "RootLayout"
  /\ bootstrapDue
  /\ bootstrapDue' = FALSE
  /\ IF authLoading
       THEN UNCHANGED <<hasProfile, hasPreferences, bootLoading, loader, boots>>
       ELSE IF ~isAuthenticated \/ user = "null"
              THEN /\ hasProfile' = "null"
                   /\ hasPreferences' = "null"
                   /\ bootLoading' = FALSE
                   /\ loader' = hideLoading(loader)
                   /\ UNCHANGED boots
              ELSE /\ loader' = showLoading(loader, "Checking your account...")
                   /\ boots' = Append(boots, Boot)
                   /\ UNCHANGED <<hasProfile, hasPreferences, bootLoading>>
  /\ UNCHANGED <<session, authLoading, isAuthenticated, user, authEvents, profileRow>>
  /\ UNCHANGED <<route, quizError, flowVars>>
  /\ UNCHANGED outsideGate

Flag(b) == IF b THEN "true" ELSE "false"

\* The finally block of the k-th call of bootstrap under way.
BootDone(k) ==
  /\ boots' = Remove(boots, k)
  /\ bootLoading' = FALSE
  /\ loader' = hideLoading(loader)

\* The profiles query settles: a row with a display name sets hasProfile,
\* an error is logged and counts as no profile, a rejection ends the call.
profileSettles(k, outcome) ==
  /\ k \in DOMAIN boots
  /\ boots[k].pc = "profile"
  /\ CASE outcome = "data" ->
            /\ hasProfile' = Flag(profileRow)
            /\ boots' = [boots EXCEPT ![k].pc = "prefs"]
            /\ UNCHANGED <<bootLoading, loader>>
       [] outcome = "error" ->
            /\ hasProfile' = "false"
            /\ boots' = [boots EXCEPT ![k].pc = "prefs"]
            /\ UNCHANGED <<bootLoading, loader>>
       [] outcome = "thrown" ->
            /\ BootDone(k)
            /\ UNCHANGED hasProfile
  /\ UNCHANGED <<session, authLoading, isAuthenticated, user, authEvents,
                 hasPreferences, bootstrapDue, profileRow>>
  /\ UNCHANGED <<route, quizError, flowVars>>
  /\ UNCHANGED outsideGate

\* The user_preferences query settles, then the finally block.
prefsSettles(k, outcome) ==
  /\ k \in DOMAIN boots
  /\ boots[k].pc = "prefs"
  /\ CASE outcome = "data" -> hasPreferences' = Flag(prefs[Me] # NULL)
       [] outcome = "error" -> hasPreferences' = "false"
       [] outcome = "thrown" -> UNCHANGED hasPreferences
  /\ BootDone(k)
  /\ UNCHANGED <<session, authLoading, isAuthenticated, user, authEvents,
                 hasProfile, bootstrapDue, profileRow>>
  /\ UNCHANGED <<route, quizError, flowVars>>
  /\ UNCHANGED outsideGate

\* The routing effect with the onboarded user's redirect left out.
redirect_no_onboarded(segment, authenticated, profile, preferences) ==
  IF ~authenticated
    THEN IF segment # "(auth)" THEN "/(auth)/login" ELSE "none"
  ELSE IF profile = "null" \/ preferences = "null" THEN "none"
  ELSE IF profile = "false" /\ segment \notin {"(profile-setup)", "(vibe-quiz)", "(tabs)"}
    THEN "/profile-setup"
  ELSE IF profile = "true" /\ preferences = "false"
          /\ segment \notin {"(vibe-quiz)", "(tabs)"}
    THEN "/vibe-quiz"
  ELSE "none"

\* The route the routing effect replaces the current one by, "none" when it
\* returns without a call of router.replace.
redirect(segment, authenticated, profile, preferences) ==
  IF ~authenticated
    THEN IF segment # "(auth)" THEN "/(auth)/login" ELSE "none"
  ELSE IF profile = "null" \/ preferences = "null" THEN "none"
  ELSE IF profile = "false" /\ segment \notin {"(profile-setup)", "(vibe-quiz)", "(tabs)"}
    THEN "/profile-setup"
  ELSE IF profile = "true" /\ preferences = "false"
          /\ segment \notin {"(vibe-quiz)", "(tabs)"}
    THEN "/vibe-quiz"
  ELSE IF profile = "true" /\ preferences = "true"
          /\ segment \in {"(auth)", "(profile-setup)", "(vibe-quiz)"}
    THEN "/(tabs)"
  ELSE "none"

Redirect == redirect(RootSegment(route), isAuthenticated, hasProfile, hasPreferences)

\* The routing effect runs after a render in which one of its dependencies
\* changed; it acts when its conditions call router.replace.
routingEffect ==
  /\ mounted = "RootLayout"
  /\ SlotShown
  /\ Redirect # "none"
  /\ GoTo(Redirect, submissions)
  /\ UNCHANGED <<loader, apiUrlSet>>
  /\ UNCHANGED gateVars
  /\ UNCHANGED outsideGate

\* handlePressUser on the blend tab: router.push to a user's page.
handlePressUser ==
  /\ mounted = "RootLayout"
  /\ SlotShown
  /\ ~loader.isLoading
  /\ route = "/(tabs)"
  /\ GoTo("/user/[id]", submissions)
  /\ UNCHANGED <<loader, apiUrlSet>>
  /\ UNCHANGED gateVars
  /\ UNCHANGED outsideGate

\* The back button of a user's page: router.replace to the blend tab.
handleUserBack ==
  /\ mounted = "RootLayout"
  /\ SlotShown
  /\ ~loader.isLoading
  /\ route = "/user/[id]"
  /\ GoTo("/(tabs)", submissions)
  /\ UNCHANGED <<loader, apiUrlSet>>
  /\ UNCHANGED gateVars
  /\ UNCHANGED outsideGate

\* The app as RootLayout mounts it: a signed-in user with a stored session
\* or a signed-out one, with or without a profile, who has not taken the
\* quiz, on any route.
InitGate ==
  /\ ScreensIdle("RootLayout")
  /\ finalAnswers = <<>>
  /\ payloadVector = NULL
  /\ quizError = NULL
  /\ route \in Routes
  /\ CosineIdle
  /\ ScaleIdle
  /\ LoaderIdle
  /\ FlowIdle
  /\ TabIdle
  /\ session \in BOOLEAN
  /\ authLoading = TRUE
  /\ isAuthenticated = FALSE
  /\ user = "null"
  /\ authEvents = 0
  /\ bootLoading = TRUE
  /\ hasProfile = "null"
  /\ hasPreferences = "null"
  /\ bootstrapDue = FALSE
  /\ boots = <<>>
  /\ profileRow \in BOOLEAN

\* The gate once auth loading and a bootstrap have finished, in every
\* combination of account state and route: the flags are those of the last
\* bootstrap, which without a user cleared them unless it has yet to run.
InitRouting ==
  /\ ScreensIdle("RootLayout")
  /\ finalAnswers = <<>>
  /\ payloadVector = NULL
  /\ quizError = NULL
  /\ route \in Routes
  /\ CosineIdle
  /\ ScaleIdle
  /\ LoaderIdle
  /\ FlowIdle
  /\ TabIdle
  /\ isAuthenticated \in BOOLEAN
  /\ session = isAuthenticated
  /\ user = (IF isAuthenticated THEN "object" ELSE "null")
  /\ authLoading = FALSE
  /\ authEvents = 0
  /\ bootLoading = FALSE
  /\ hasProfile \in {"null", "true", "false"}
  /\ hasPreferences \in {"null", "true", "false"}
  /\ bootstrapDue \in BOOLEAN
  /\ (~isAuthenticated /\ ~bootstrapDue) => (hasProfile = "null" /\ hasPreferences = "null")
  /\ boots = <<>>
  /\ profileRow \in BOOLEAN

NextRouting ==
  \/ \E withSession \in BOOLEAN : authStateChange(withSession)
  \/ bootstrapEffect
  \/ \E k \in 1..(MaxAuthEvents + 1) :
       \E outcome \in {"data", "error", "thrown"} : profileSettles(k, outcome)
  \/ \E k \in 1..(MaxAuthEvents + 1) :
       \E outcome \in {"data", "error", "thrown"} : prefsSettles(k, outcome)
  \/ routingEffect
  \/ handlePressUser
  \/ handleUserBack
  \/ handleSelect("A")
  \/ \E k \in 1..MaxSubmissions :
       \E outcome \in {"noSession", "thrown", "session"} : sessionSettles(k, outcome)
  \/ \E k \in 1..MaxSubmissions :
       \E outcome \in {"notOk", "thrown", "ok"} : fetchSettles(k, outcome)

SpecRouting == InitRouting /\ [][NextRouting]_vars

NextGate == authInit \/ NextRouting

SpecGate == InitGate /\ [][NextGate]_vars

\* ------------------------------------------ BlendScreen, calls under way

\* The most calls of computeBlended under way at once.
MaxBlendRequests == 2

\* Everything the blend tab's selection and its calls of computeBlended
\* never touch.
outsideRequests ==
  <<mounted, prefs, movieVibes, id, movies, blendedMovies, pillVars, homeVars,
    quizVars, cosineVars, scaleVars, loaderVars, flowVars, gateVars, searchVars>>

\* The search view is on screen and can be pressed.
SearchViewShown == IsBlendScreen /\ mounted = "BlendScreen" /\ viewMode = "search"

\* The results view: the sections are rendered only while !blendLoading.
BlendViewWhile(loading, mode, topPicks, categories) ==
  IF loading THEN <<>> ELSE BlendView(mode, topPicks, categories)

\* The results view's "Adjust selection" button: setViewMode('search').
adjustSelection ==
  /\ IsBlendScreen /\ mounted = "BlendScreen"
  /\ viewMode = "results"
  /\ viewMode' = "search"
  /\ view' = <<>>
  /\ UNCHANGED <<selectedUsers, blendedTopPicks, blendedCategories, alert,
                 participantIds, requestVars>>
  /\ UNCHANGED outsideRequests

\* computeBlended up to its first await: without an API URL the alert and
\* nothing else, with one participantIds is fixed, blendLoading set and the
\* preferences asked for.
computeBlendedStarts(hasApiUrl) ==
  /\ SearchViewShown
  /\ Len(selectedUsers) > 0
  /\ IF ~hasApiUrl
       THEN /\ alert' = "Missing API base URL"
            /\ UNCHANGED <<requestVars, view>>
       ELSE /\ Len(blendRequests) < MaxBlendRequests
            /\ blendLoading' = TRUE
            /\ blendRequests' =
                 Append(blendRequests,
                        [participantIds |-> ParticipantIds(selectedUsers), pc |-> "prefs"])
            /\ view' = BlendViewWhile(TRUE, viewMode, blendedTopPicks, blendedCategories)
            /\ UNCHANGED alert
  /\ UNCHANGED <<selectedUsers, viewMode, blendedTopPicks, blendedCategories,
                 participantIds>>
  /\ UNCHANGED outsideRequests

\* A call that returns after an alert: setBlendLoading(false) before the
\* return and again in the finally block.
Alerted(k, title) ==
  /\ alert' = title
  /\ blendLoading' = FALSE
  /\ blendRequests' = Remove(blendRequests, k)
  /\ view' = BlendViewWhile(FALSE, viewMode, blendedTopPicks, blendedCategories)
  /\ UNCHANGED <<viewMode, blendedTopPicks, blendedCategories, participantIds>>

\* A call that lands in the catch block: empty results, then the finally
\* block.
Caught(k) ==
  /\ blendedTopPicks' = Vec(<<>>)
  /\ blendedCategories' = Obj(<<>>)
  /\ participantIds' = <<>>
  /\ blendLoading' = FALSE
  /\ blendRequests' = Remove(blendRequests, k)
  /\ view' = BlendViewWhile(FALSE, viewMode, Vec(<<>>), Obj(<<>>))
  /\ UNCHANGED <<viewMode, alert>>

\* The preferences of the k-th call under way arrive, from the backend or
\* from the fallback query: a query error and a participant without a
\* vector end the call with an alert, a rejection lands in the catch block,
\* else the blend is asked for.
preferencesSettle(k, outcome) ==
  /\ mounted = "BlendScreen"
  /\ k \in DOMAIN blendRequests
  /\ blendRequests[k].pc = "prefs"
  /\ LET pids == blendRequests[k].participantIds
         prefById == PrefById(pids)
     IN CASE outcome = "prefsError" -> Alerted(k, "Error")
          [] outcome = "thrown" -> Caught(k)
          [] outcome = "ok" ->
               IF MissingPrefs(pids, prefById) # {}
                 THEN Alerted(k, "Missing Preferences")
                 ELSE /\ blendRequests' = [blendRequests EXCEPT ![k].pc = "blend"]
                      /\ UNCHANGED <<alert, blendLoading, view, viewMode,
                                     blendedTopPicks, blendedCategories, participantIds>>
  /\ UNCHANGED selectedUsers
  /\ UNCHANGED outsideRequests

\* The end of a call whose blend arrived: the three setters, whatever the
\* selection has become, then the finally block.
Shown(k, r) ==
  /\ blendedTopPicks' = Vec(r.top_picks)
  /\ blendedCategories' = Obj(r.categories)
  /\ viewMode' = "results"
  /\ participantIds' = blendRequests[k].participantIds
  /\ blendLoading' = FALSE
  /\ blendRequests' = Remove(blendRequests, k)
  /\ view' = BlendViewWhile(FALSE, "results", Vec(r.top_picks), Obj(r.categories))
  /\ UNCHANGED alert

\* POST /v1/blend/recommendations settles for the k-th call under way.
blendSettles(k, outcome) ==
  /\ mounted = "BlendScreen"
  /\ k \in DOMAIN blendRequests
  /\ blendRequests[k].pc = "blend"
  /\ CASE outcome = "blendNotOk" -> Alerted(k, "Error")
       [] outcome = "thrown" -> Caught(k)
       [] outcome = "ok" -> \E r \in BlendResponses : Shown(k, r)
  /\ UNCHANGED selectedUsers
  /\ UNCHANGED outsideRequests

\* The blend tab of a user, every participant with or without a vector.
InitRequests ==
  /\ Init
  /\ mounted = "BlendScreen"
  /\ \A u \in Users : prefs[u] \in {NULL, PrefArthouse}

NextRequests ==
  \/ \E otherUser \in Others : SearchViewShown /\ handleStartBlend(otherUser)
  \/ clearSelection
  \/ adjustSelection
  \/ dismissAlert
  \/ \E hasApiUrl \in BOOLEAN : computeBlendedStarts(hasApiUrl)
  \/ \E k \in 1..MaxBlendRequests :
       \E outcome \in {"prefsError", "thrown", "ok"} : preferencesSettle(k, outcome)
  \/ \E k \in 1..MaxBlendRequests :
       \E outcome \in {"blendNotOk", "thrown", "ok"} : blendSettles(k, outcome)

SpecRequests == InitRequests /\ [][NextRequests]_vars

\* ------------------------------------------------ BlendScreen, user search

\* The most timers setTimeout makes and the most calls of handleSearch
\* under way at once.
MaxTimers == 3
MaxSearches == 2

\* What is typed into the search box.
UserQueries == { <<>>, <<" ">>, <<"a">>, <<"a", "b">> }

\* profiles.display_name of the other users, in the order the query
\* returns its rows.
ProfileOrder == <<"u1", "u2">>
DisplayName(u) == IF u = "u1" THEN <<"a", "b">> ELSE <<"A">>

\* .ilike('display_name', `%${trimmed}%`): the rows whose name holds the
\* text, whatever the case.
RECURSIVE Like(_, _)
Like(rows, trimmed) ==
  IF rows = <<>> THEN <<>>
  ELSE (IF Includes(ToLowerCase(DisplayName(Head(rows))), ToLowerCase(trimmed))
          THEN <<Head(rows)>> ELSE <<>>)
       \o Like(Tail(rows), trimmed)

ProfilesLike(trimmed) == Like(ProfileOrder, trimmed)

\* Everything the user search never touches.
outsideSearch ==
  <<blendVars, pillVars, homeVars, view, quizVars, cosineVars, scaleVars,
    loaderVars, flowVars, gateVars, requestVars>>

\* clearTimeout(ref): nothing for null and for a timer that has fired.
ClearTimeout(pending, ref) == {t \in pending : t.id # ref}

\* onChangeText={setSearchQuery}: the render that follows has the debounce
\* effect to run, which React does before it handles the next press or key.
setSearchQuery(text) ==
  /\ SearchViewShown
  /\ ~searchEffectDue
  /\ text # searchQuery
  /\ timersSet < MaxTimers
  /\ searchQuery' = text
  /\ searchEffectDue' = TRUE
  /\ UNCHANGED <<results, searching, searchError, searchTimeoutRef, timers,
                 timersSet, searches, effectCleanup>>
  /\ UNCHANGED outsideSearch

\* The debounce effect on a changed searchQuery: the cleanup the last run
\* returned, then the body, which for an empty trimmed query clears the
\* results and the timer and otherwise replaces the timer by one of 250 ms
\* that calls the handleSearch of this render.
debounced(pending, ref, cleanup, made, query) ==
  LET cleaned == IF cleanup /\ ref # 0 THEN ClearTimeout(pending, ref) ELSE pending
      ref1 == IF cleanup /\ ref # 0 THEN 0 ELSE ref
  IN IF Trim(query) = <<>>
       THEN [timers |-> IF ref1 # 0 THEN ClearTimeout(cleaned, ref1) ELSE cleaned,
             ref |-> 0, cleanup |-> FALSE, made |-> made, clear |-> TRUE]
       ELSE [timers |-> (IF ref1 # 0 THEN ClearTimeout(cleaned, ref1) ELSE cleaned)
                          \cup {[id |-> made + 1, query |-> query]},
             ref |-> made + 1, cleanup |-> TRUE, made |-> made + 1, clear |-> FALSE]

debounceEffect ==
  /\ mounted = "BlendScreen"
  /\ searchEffectDue
  /\ searchEffectDue' = FALSE
  /\ LET after == debounced(timers, searchTimeoutRef, effectCleanup, timersSet, searchQuery)
     IN /\ timers' = after.timers
        /\ searchTimeoutRef' = after.ref
        /\ effectCleanup' = after.cleanup
        /\ timersSet' = after.made
        /\ IF after.clear
             THEN results' = <<>> /\ searchError' = NULL
             ELSE UNCHANGED <<results, searchError>>
  /\ UNCHANGED <<searchQuery, searching, searches>>
  /\ UNCHANGED outsideSearch

\* handleSearch up to its await, searchQuery being that of the render the
\* call comes from: an empty trimmed query clears the results, any other is
\* sent to the profiles table.
handleSearchStarts(query) ==
  IF Trim(query) = <<>>
    THEN /\ results' = <<>>
         /\ searchError' = NULL
         /\ UNCHANGED <<searching, searches>>
    ELSE /\ Len(searches) < MaxSearches
         /\ searching' = TRUE
         /\ searchError' = NULL
         /\ searches' = Append(searches, [trimmed |-> Trim(query)])
         /\ UNCHANGED results

\* A debounce timer fires and calls the handleSearch of its render.
timerFires(t) ==
  /\ mounted = "BlendScreen"
  /\ t \in timers
  /\ timers' = timers \ {t}
  /\ handleSearchStarts(t.query)
  /\ UNCHANGED <<searchQuery, searchTimeoutRef, timersSet, effectCleanup,
                 searchEffectDue>>
  /\ UNCHANGED outsideSearch

\* onSubmitEditing={handleSearch}
submitEditing ==
  /\ SearchViewShown
  /\ ~searchEffectDue
  /\ handleSearchStarts(searchQuery)
  /\ UNCHANGED <<searchQuery, searchTimeoutRef, timers, timersSet, effectCleanup,
                 searchEffectDue>>
  /\ UNCHANGED outsideSearch

\* The profiles query of the k-th call under way settles: its rows (none
\* for a null data), or the error message and no rows; then the finally
\* block.
searchSettles(k, outcome) ==
  /\ mounted = "BlendScreen"
  /\ k \in DOMAIN searches
  /\ CASE outcome = "data" ->
            /\ results' = ProfilesLike(searches[k].trimmed)
            /\ UNCHANGED searchError
       [] outcome = "null" ->
            /\ results' = <<>>
            /\ UNCHANGED searchError
       [] outcome \in {"error", "thrown"} ->
            /\ results' = <<>>
            /\ searchError' = Text(<<"Something went wrong while searching users.">>)
  /\ searching' = FALSE
  /\ searches' = Remove(searches, k)
  /\ UNCHANGED <<searchQuery, searchTimeoutRef, timers, timersSet, effectCleanup,
                 searchEffectDue>>
  /\ UNCHANGED outsideSearch

InitSearch ==
  /\ ScreensIdle("BlendScreen")
  /\ QuizIdle
  /\ CosineIdle
  /\ ExtraIdle

NextSearch ==
  \/ \E text \in UserQueries : setSearchQuery(text)
  \/ debounceEffect
  \/ \E t \in timers : timerFires(t)
  \/ submitEditing
  \/ \E k \in 1..MaxSearches :
       \E outcome \in {"data", "null", "error", "thrown"} : searchSettles(k, outcome)

SpecSearch == InitSearch /\ [][NextSearch]_vars

\* ------------------------------------------------------------- claims

\* A shown row without its score: the fields it took from the movie record.
Meta(row) == [f \in DOMAIN row \ {"similarity"} |-> row[f]]

\* The rows the legacy BlendScreen shows.
LegacyRows == IF blendedMovies = NULL THEN <<>> ELSE blendedMovies.items

\* The batch positions a shown row can have come from.
SourcesOf(row) ==
  {k \in 1..Len(movieVibes) : OrEmptyObject(movieVibes[k].movie) = Meta(row)}

\* A missing vector or one of norm 0.
Degenerate(v) == v = NULL \/ SumSq(v) = 0

RECURSIVE CosineSum(_, _)
CosineSum(pids, vibe) ==
  IF pids = <<>> THEN RZero
  ELSE RAdd(cosine(prefs[Head(pids)], vibe), CosineSum(Tail(pids), vibe))

\* C1: every shown blended score is the arithmetic mean of the participants'
\* cosine similarities to the candidate, each participant weighted equally:
\* twice the score is s(a,c) + s(b,c) on the two-user screen, and N times the
\* score is the sum over the N participants on the multi-user screen.
C1_BlendIsMean ==
  /\ \A i \in 1..Len(movies) :
       \E k \in SourcesOf(movies[i]) :
         RMulInt(movies[i].similarity, 2) =
           RAdd(cosine(prefs[Me], movieVibes[k].vibe_vector),
                cosine(prefs[id], movieVibes[k].vibe_vector))
  /\ \A i \in 1..Len(LegacyRows) :
       \E k \in SourcesOf(LegacyRows[i]) :
         RMulInt(LegacyRows[i].similarity, Len(participantIds)) =
           CosineSum(participantIds, movieVibes[k].vibe_vector)

\* A two-user blend shown with a candidate that the two participants score
\* differently, neither at 0.
C1_Witness ==
  \E i \in 1..Len(movies) : \E k \in SourcesOf(movies[i]) :
    /\ cosine(prefs[Me], movieVibes[k].vibe_vector)
         # cosine(prefs[id], movieVibes[k].vibe_vector)
    /\ movies[i].similarity # RZero
    /\ cosine(prefs[Me], movieVibes[k].vibe_vector) # RZero
    /\ cosine(prefs[id], movieVibes[k].vibe_vector) # RZero

\* The sum of the cosines of the participants that have a vector of nonzero
\* norm; the others add nothing.
RECURSIVE NonDegenerateSum(_, _)
NonDegenerateSum(pids, vibe) ==
  IF pids = <<>> THEN RZero
  ELSE IF Degenerate(prefs[Head(pids)])
       THEN NonDegenerateSum(Tail(pids), vibe)
       ELSE RAdd(cosine(prefs[Head(pids)], vibe), NonDegenerateSum(Tail(pids), vibe))

HasDegenerate(pids) == \E j \in 1..Len(pids) : Degenerate(prefs[pids[j]])

\* C2: when a participant of a shown blend has no vector or a vector of norm
\* 0, that participant adds 0 to the sum and the divisor is still the number
\* of all participants.
C2_DegenerateCountsAsZero ==
  /\ \A i \in 1..Len(movies) :
       HasDegenerate(<<Me, id>>) =>
         \E k \in SourcesOf(movies[i]) :
           RMulInt(movies[i].similarity, 2) =
             NonDegenerateSum(<<Me, id>>, movieVibes[k].vibe_vector)
  /\ \A i \in 1..Len(LegacyRows) :
       HasDegenerate(participantIds) =>
         \E k \in SourcesOf(LegacyRows[i]) :
           RMulInt(LegacyRows[i].similarity, Len(participantIds)) =
             NonDegenerateSum(participantIds, movieVibes[k].vibe_vector)

\* A two-user blend shown although one participant has no vector, with a
\* candidate the other participant scores above 0.
C2_Witness ==
  /\ id # NoUser
  /\ (prefs[Me] = NULL) # (prefs[id] = NULL)
  /\ \E i \in 1..Len(movies) : RLess(RZero, movies[i].similarity)

\* The vectors in play: every stored preference, every candidate's vibe, null.
StateVectors ==
  {prefs[u] : u \in Users}
    \cup {movieVibes[k].vibe_vector : k \in 1..Len(movieVibes)} \cup {NULL}

\* C3: the similarity is exactly 0 whenever either argument is missing or
\* has norm 0, whatever the other argument is, in the shared cosine and in
\* the cosine written inside the legacy blend; a candidate without a vibe
\* vector is shown with score 0.
C3_DegenerateScoresZero ==
  /\ \A a \in {v \in StateVectors : Degenerate(v)}, b \in StateVectors :
       /\ cosine(a, b) = RZero
       /\ cosine(b, a) = RZero
       /\ (a # NULL /\ b # NULL) =>
            (legacyCos(a, b) = RZero /\ legacyCos(b, a) = RZero)
  /\ \A i \in 1..Len(movies) :
       \/ \E k \in SourcesOf(movies[i]) : ~Degenerate(movieVibes[k].vibe_vector)
       \/ movies[i].similarity = RZero
  /\ \A i \in 1..Len(LegacyRows) :
       \/ \E k \in SourcesOf(LegacyRows[i]) : ~Degenerate(movieVibes[k].vibe_vector)
       \/ LegacyRows[i].similarity = RZero
  /\ (Degenerate(prefs[Me]) /\ id # NoUser /\ Degenerate(prefs[id])) =>
       \A i \in 1..Len(movies) : movies[i].similarity = RZero

\* A blend shown where the current user's vector has norm 0, one candidate
\* has no vibe vector and another candidate still scores above 0.
C3_Witness ==
  /\ prefs[Me] # NULL /\ SumSq(prefs[Me]) = 0
  /\ \E i, j \in 1..Len(movies) :
       /\ \E k \in SourcesOf(movies[i]) : movieVibes[k].vibe_vector = NULL
       /\ movies[i].similarity = RZero
       /\ RLess(RZero, movies[j].similarity)

\* C4: whenever a blend shows scores or switches to the results view, every
\* participant of that blend has a preference vector: with one missing, the
\* request ends in the missing-preferences outcome and nothing is scored.
C4_MissingPreferenceShortCircuits ==
  /\ movies # <<>> => (prefs[Me] # NULL /\ prefs[id] # NULL)
  /\ \A j \in 1..Len(participantIds) : prefs[participantIds[j]] # NULL
  /\ (IsBlendScreen /\ viewMode = "results" /\ participantIds # <<>>) =>
       MissingPrefs(participantIds, PrefById(participantIds)) = {}

\* Non-increasing in score across consecutive rows.
SortedDescending(rows) ==
  \A i \in 1..(Len(rows) - 1) : RLeq(rows[i + 1].similarity, rows[i].similarity)

\* C5: the ranked rows a blend screen shows are sorted descending by score.
C5_SortedDescending ==
  /\ SortedDescending(movies)
  /\ SortedDescending(LegacyRows)

\* Rows shown in an order that differs from the batch's: the higher score
\* came later in the batch.
C5_Witness ==
  \E i, j \in 1..Len(movies) :
    /\ i < j
    /\ RLess(movies[j].similarity, movies[i].similarity)
    /\ \E ki \in SourcesOf(movies[i]), kj \in SourcesOf(movies[j]) : kj < ki

\* Rows of equal score keep the order they had in the batch.
StableOrder(rows) ==
  \A i, j \in 1..Len(rows) :
    (i < j /\ rows[i].similarity = rows[j].similarity) =>
      \A ki \in SourcesOf(rows[i]), kj \in SourcesOf(rows[j]) : ki < kj

\* C6: ranking is stable: candidates with equal score appear in the order
\* of the input batch.
C6_StableRanking ==
  /\ StableOrder(movies)
  /\ StableOrder(LegacyRows)

\* Two rows tied at a score other than 0.
C6_Witness ==
  \E i, j \in 1..Len(movies) :
    /\ i < j
    /\ movies[i].similarity = movies[j].similarity
    /\ movies[i].similarity # RZero

\* Every row is a batch record's movie plus the score, and every batch
\* record has its row.
PassedThrough(rows) ==
  /\ \A i \in 1..Len(rows) :
       \E k \in 1..Len(movieVibes) :
         /\ Meta(rows[i]) = OrEmptyObject(movieVibes[k].movie)
         /\ DOMAIN rows[i] = DOMAIN OrEmptyObject(movieVibes[k].movie) \cup {"similarity"}
  /\ rows # <<>> =>
       \A k \in 1..Len(movieVibes) : \E i \in 1..Len(rows) : k \in SourcesOf(rows[i])

\* C7: each shown row carries exactly the fields and values of its movie
\* record plus the score, and no step changes the batch that was read.
C7_MetadataPassThrough ==
  /\ [](PassedThrough(movies) /\ PassedThrough(LegacyRows))
  /\ [][movieVibes' = movieVibes]_vars

\* Rows shown for records of different shapes: one with a poster path, one
\* whose movie join was missing.
C7_Witness ==
  \E i, j \in 1..Len(movies) :
    /\ "poster_path" \in DOMAIN movies[i]
    /\ DOMAIN movies[j] = {"similarity"}

\* No shown row was scored from a vibe vector of a length other than 10.
ScoredFromTen(rows) ==
  \A i \in 1..Len(rows) :
    \E k \in SourcesOf(rows[i]) :
      \/ movieVibes[k].vibe_vector = NULL
      \/ Length(movieVibes[k].vibe_vector) = 10

\* C8: a vibe vector whose length is not exactly 10 is rejected: no shown
\* score and no shown pill comes from such a vector.
C8_WrongLengthRejected ==
  /\ ScoredFromTen(movies)
  /\ ScoredFromTen(LegacyRows)
  /\ (preferenceVector # NULL /\ Length(preferenceVector) # 10) => profilePills = <<>>
  /\ (movieVibe # NULL /\ Length(movieVibe) # 10) => moviePills = <<>>

\* The quiz option each pill label describes, by the options' texts.
LabelDescribes ==
  ("Arthouse lean" :> [id |-> "mainstream_vs_arthouse", option |-> "B"]) @@
  ("Mainstream crowd-pleaser" :> [id |-> "mainstream_vs_arthouse", option |-> "A"]) @@
  ("Dark & moody" :> [id |-> "light_vs_dark", option |-> "B"]) @@
  ("Light & feel-good" :> [id |-> "light_vs_dark", option |-> "A"]) @@
  ("Slow-burn stories" :> [id |-> "fast_vs_slow", option |-> "B"]) @@
  ("Fast-paced energy" :> [id |-> "fast_vs_slow", option |-> "A"]) @@
  ("Fantastical worlds" :> [id |-> "real_vs_fantastical", option |-> "B"]) @@
  ("Grounded & realistic" :> [id |-> "real_vs_fantastical", option |-> "A"]) @@
  ("Optimistic endings" :> [id |-> "optimistic_vs_bleak", option |-> "A"]) @@
  ("Bleak & heavy" :> [id |-> "optimistic_vs_bleak", option |-> "B"]) @@
  ("Comfort rewatches" :> [id |-> "comfort_vs_challenging", option |-> "A"]) @@
  ("Challenging watches" :> [id |-> "comfort_vs_challenging", option |-> "B"]) @@
  ("Arthouse" :> [id |-> "mainstream_vs_arthouse", option |-> "B"]) @@
  ("Mainstream" :> [id |-> "mainstream_vs_arthouse", option |-> "A"]) @@
  ("Dark Tone" :> [id |-> "light_vs_dark", option |-> "B"]) @@
  ("Light Tone" :> [id |-> "light_vs_dark", option |-> "A"]) @@
  ("Slow Burn" :> [id |-> "fast_vs_slow", option |-> "B"]) @@
  ("Fast Paced" :> [id |-> "fast_vs_slow", option |-> "A"]) @@
  ("Fantastical" :> [id |-> "real_vs_fantastical", option |-> "B"]) @@
  ("Grounded" :> [id |-> "real_vs_fantastical", option |-> "A"]) @@
  ("Comfort Watch" :> [id |-> "comfort_vs_challenging", option |-> "A"]) @@
  ("Challenging" :> [id |-> "comfort_vs_challenging", option |-> "B"])

\* The value the quiz stores on axis i for the option a label describes.
EncodedPole(label, i) ==
  LET d == LabelDescribes[label]
  IN  buildPreferenceVector(d.id :> d.option).items[i + 1]

\* Every shown pill names the pole its axis value lies on.
PolarityFollowed(axes, v, pills) ==
  \A n \in 1..Len(axes) :
    \A label \in {axes[n].positive, axes[n].negative} :
      InSeq(pills, label) =>
        \/ EncodedPole(label, axes[n].i) > 0 /\ v.items[axes[n].i + 1] > threshold
        \/ EncodedPole(label, axes[n].i) < 0 /\ v.items[axes[n].i + 1] < -threshold

\* C9: on every configured axis a shown pill describes the pole of the axis
\* that the vector's value lies on: the pole quiz option B stores as +1 above
\* the threshold, the pole option A stores as -1 below its negation.
C9_LabelsFollowPolarity ==
  /\ PolarityFollowed(ProfileAxes, preferenceVector, profilePills)
  /\ PolarityFollowed(MovieAxes, movieVibe, moviePills)

\* The per-axis pills of a screen before the list is cut to maxPills.
Untruncated(axes, v) == PillsAfter(axes, v, Len(axes))

\* On each axis: the positive label exactly above the threshold, the
\* negative label exactly below its negation, never both.
AxisStrict(axes, v, pills) ==
  \A n \in 1..Len(axes) :
    LET x == v.items[axes[n].i + 1]
    IN  /\ InSeq(pills, axes[n].positive) <=> x > threshold
        /\ InSeq(pills, axes[n].negative) <=> x < -threshold
        /\ ~(InSeq(pills, axes[n].positive) /\ InSeq(pills, axes[n].negative))

\* The shown pills are the per-axis pills cut to maxPills, and are all of
\* them when there are no more than maxPills.
ShownFrom(axes, v, pills) ==
  /\ AxisStrict(axes, v, Untruncated(axes, v))
  /\ pills = Slice(Untruncated(axes, v), maxPills)
  /\ Len(Untruncated(axes, v)) <= maxPills => AxisStrict(axes, v, pills)

\* C10: for a 10-component vector each configured axis gives the positive
\* label if and only if its value is above 0.35, the negative label if and
\* only if it is below -0.35 and no pill otherwise, with strict comparisons
\* and never both labels; the shown list is that per-axis list cut to
\* maxPills.
C10_StrictThreshold ==
  /\ threshold = 35
  /\ (preferenceVector # NULL /\ Length(preferenceVector) = 10) =>
       ShownFrom(ProfileAxes, preferenceVector, profilePills)
  /\ (movieVibe # NULL /\ Length(movieVibe) = 10) =>
       ShownFrom(MovieAxes, movieVibe, moviePills)

\* A profile whose axes 0 and 2 sit exactly on 0.35 and -0.35 and show no
\* pill, while axis 1 at 0.36 and axis 6 at -0.36 show theirs.
C10_Witness ==
  /\ preferenceVector # NULL
  /\ Length(preferenceVector) = 10
  /\ preferenceVector.items[1] = 35
  /\ preferenceVector.items[3] = -35
  /\ preferenceVector.items[2] = 36
  /\ preferenceVector.items[7] = -36
  /\ preferenceVector.items[8] = 0
  /\ preferenceVector.items[10] = 0
  /\ profilePills = <<"Dark & moody", "Grounded & realistic">>

\* pills is the first Len(pills) entries of all.
IsPrefix(pills, all) ==
  /\ Len(pills) <= Len(all)
  /\ \A k \in 1..Len(pills) : pills[k] = all[k]

\* The shown pills are the first maxPills of the per-axis pills, or all of
\* them when there are fewer.
FirstMaxPills(axes, v, pills) ==
  /\ IsPrefix(pills, Untruncated(axes, v))
  /\ Len(pills) <= maxPills
  /\ Len(pills) = maxPills \/ Len(pills) = Len(Untruncated(axes, v))

Agreement(n) == OrZero(viewerPref, WhyAxes[n].i) * OrZero(movieVibe, WhyAxes[n].i)

\* The sentence axes whose phrase the rendered sentence contains.
NamedAxes ==
  IF whyThisText = NULL THEN {}
  ELSE {n \in 1..Len(WhyAxes) :
          InSeq(whyThisText.parts, WhyAxes[n].pos) \/ InSeq(whyThisText.parts, WhyAxes[n].neg)}

\* C12: no "why this" sentence is rendered when no sentence axis has a
\* nonzero agreement, and a rendered sentence names no axis whose agreement
\* is 0.
C12_NoSentenceFromZeroAgreement ==
  /\ whyThisText # NULL => \E n \in 1..Len(WhyAxes) : Agreement(n) # 0
  /\ \A n \in NamedAxes : Agreement(n) # 0

\* C13: a rendered sentence names at most two axes, no other axis has a
\* strictly larger absolute agreement than a named one, and each named axis
\* with a positive agreement appears with its positive phrase and each with
\* a negative agreement with its negative phrase.
C13_TopAxesBySignOfAgreement ==
  /\ Cardinality(NamedAxes) <= 2
  /\ \A n \in NamedAxes : \A m \in (1..Len(WhyAxes)) \ NamedAxes :
       Abs(Agreement(m)) <= Abs(Agreement(n))
  /\ \A n \in NamedAxes :
       /\ Agreement(n) > 0 =>
            (InSeq(whyThisText.parts, WhyAxes[n].pos) /\ ~InSeq(whyThisText.parts, WhyAxes[n].neg))
       /\ Agreement(n) < 0 =>
            (InSeq(whyThisText.parts, WhyAxes[n].neg) /\ ~InSeq(whyThisText.parts, WhyAxes[n].pos))

\* A sentence naming one axis on which both vectors are negative, with its
\* positive phrase, and one on which they disagree, with its negative
\* phrase, while weaker nonzero agreements go unnamed.
C13_Witness ==
  /\ whyThisText # NULL
  /\ \E n, m \in NamedAxes :
       /\ OrZero(viewerPref, WhyAxes[n].i) < 0 /\ OrZero(movieVibe, WhyAxes[n].i) < 0
       /\ InSeq(whyThisText.parts, WhyAxes[n].pos)
       /\ Agreement(m) < 0
       /\ InSeq(whyThisText.parts, WhyAxes[m].neg)
  /\ \E k \in (1..Len(WhyAxes)) \ NamedAxes : Agreement(k) # 0

\* Every card of every rendered section.
Cards == UNION {{view[i].cards[k] : k \in 1..Len(view[i].cards)} : i \in 1..Len(view)}

\* p is x * 100 rounded to the nearest integer, a half rounding up.
IsRoundedPercent(p, x) ==
  /\ (2 * p - 1) * x.d <= 200 * x.n
  /\ 200 * x.n < (2 * p + 1) * x.d

\* C14: every match percentage on a card is round(clamp(score, 0, 1) * 100):
\* an integer in 0..100, 0 for every negative score, 100 for every score of
\* 1 or more, and never smaller for a larger score.
C14_MatchPercentClamped ==
  /\ \A c \in Cards :
       /\ (c.matchPercent = NULL) <=> (c.score = NULL)
       /\ c.score # NULL =>
            /\ c.matchPercent.value \in 0..100
            /\ RLess(c.score, RZero) => c.matchPercent.value = 0
            /\ RLeq(ROne, c.score) => c.matchPercent.value = 100
            /\ (RLeq(RZero, c.score) /\ RLeq(c.score, ROne)) =>
                 IsRoundedPercent(c.matchPercent.value, c.score)
  /\ \A c1, c2 \in {c \in Cards : c.score # NULL} :
       RLeq(c1.score, c2.score) => c1.matchPercent.value <= c2.matchPercent.value

\* Cards shown for a negative score, for a score above 1 and for 0.125,
\* next to a card without a score.
C14_Witness ==
  /\ \E c \in Cards : c.score # NULL /\ RLess(c.score, RZero) /\ c.matchPercent = Num(0)
  /\ \E c \in Cards : c.score # NULL /\ RLess(ROne, c.score) /\ c.matchPercent = Num(100)
  /\ \E c \in Cards : c.score = Rat(1, 8) /\ c.matchPercent = Num(13)
  /\ \E c \in Cards : c.score = NULL

\* C16: no rendered section is empty: a home-feed or blend category section
\* without candidates, as received or after filtering by the search text,
\* is left out.
C16_NoEmptySection ==
  \A i \in 1..Len(view) : Len(view[i].cards) > 0

\* The first position of x in seq.
PosIn(seq, x) == CHOOSE k \in 1..Len(seq) : seq[k] = x /\ \A j \in 1..(k - 1) : seq[j] # x

\* The keys of the sections of the feed, and of the blend's categories.
FeedIds == [k \in 1..Len(sections) |-> sections[k].id]
CategoryNames ==
  IF blendedCategories = NULL THEN <<>>
  ELSE [k \in 1..Len(blendedCategories.entries) |-> blendedCategories.entries[k].name]

\* The rendered sections other than the top picks of a blend.
CategoryViews == {i \in 1..Len(view) : ~(mounted = "BlendScreen" /\ view[i].key = "top_picks")}

\* The list a rendered section was made from.
RowsOf(key) ==
  IF mounted = "HomeScreen" THEN MoviesOf(sections[PosIn(FeedIds, key)])
  ELSE IF key = "top_picks" THEN blendedTopPicks.items
  ELSE blendedCategories.entries[PosIn(CategoryNames, key)].rows

\* C17: the top picks of a blend come first, the other sections follow in
\* the order the response declared them, and the sections and the cards left
\* by a search keep their relative order.
C17_SectionOrder ==
  /\ \A i \in 1..Len(view) :
       (mounted = "BlendScreen" /\ view[i].key = "top_picks") => i = 1
  /\ \A i, j \in CategoryViews :
       i < j =>
         LET declared == IF mounted = "HomeScreen" THEN FeedIds ELSE CategoryNames
         IN  /\ InSeq(declared, view[i].key) /\ InSeq(declared, view[j].key)
             /\ PosIn(declared, view[i].key) < PosIn(declared, view[j].key)
  /\ \A i \in 1..Len(view) : \A k, l \in 1..Len(view[i].cards) :
       k < l =>
         /\ InSeq(RowsOf(view[i].key), view[i].cards[k].movie)
         /\ InSeq(RowsOf(view[i].key), view[i].cards[l].movie)
         /\ PosIn(RowsOf(view[i].key), view[i].cards[k].movie)
              < PosIn(RowsOf(view[i].key), view[i].cards[l].movie)

\* A blend rendered with its top picks first and then two categories whose
\* declared order is not the alphabetical one.
C17_Witness ==
  /\ mounted = "BlendScreen"
  /\ Len(view) = 3
  /\ view[1].key = "top_picks"
  /\ view[2].key = "Drama"
  /\ view[3].key = "Action"
  /\ Len(view[3].cards) = 2

\* The component the quiz writes for a choice.
Encoded(answerMap, qid) ==
  IF qid \in DOMAIN answerMap
  THEN (IF answerMap[qid] = "A" THEN -100 ELSE 100)
  ELSE 0

\* C15: the vector built from an answer map has exactly 10 components; the
\* component at each question's axis index is -1.0 for choice A, +1.0 for
\* choice B and 0.0 when the question is unanswered; each axis index 0..9
\* belongs to exactly one question, so every component is -1, 0 or 1.
C15_QuizEncoding ==
  /\ \A axis \in 0..9 :
       Cardinality({n \in 1..Len(QUESTIONS) : QUESTIONS[n].axisIndex = axis}) = 1
  /\ payloadVector # NULL =>
       /\ Length(payloadVector) = 10
       /\ \A n \in 1..Len(QUESTIONS) :
            payloadVector.items[QUESTIONS[n].axisIndex + 1]
              = Encoded(finalAnswers, QUESTIONS[n].id)
       /\ \A k \in 1..10 : payloadVector.items[k] \in {-100, 0, 100}

\* A vector built from answers with an A, a B and an unanswered question.
C15_Witness ==
  /\ payloadVector # NULL
  /\ "optimistic_vs_bleak" \in DOMAIN finalAnswers
  /\ finalAnswers["optimistic_vs_bleak"] = "B"
  /\ payloadVector.items[8] = 100
  /\ "light_vs_dark" \in DOMAIN finalAnswers
  /\ finalAnswers["light_vs_dark"] = "A"
  /\ payloadVector.items[2] = -100
  /\ "short_vs_epic" \notin DOMAIN finalAnswers
  /\ payloadVector.items[9] = 0

\* C18: a blend to which no participant contributes a similarity scores
\* every candidate 0: the two-user blend when neither participant has a
\* usable vector, the multi-user blend for a candidate without a vibe vector
\* and for an empty participant list, where nothing is divided by zero.
C18_EmptyBlendIsZero ==
  /\ (id # NoUser /\ Degenerate(prefs[Me]) /\ Degenerate(prefs[id])) =>
       \A i \in 1..Len(movies) : movies[i].similarity = RZero
  /\ \A i \in 1..Len(LegacyRows) :
       (\A k \in SourcesOf(LegacyRows[i]) : movieVibes[k].vibe_vector = NULL) =>
         LegacyRows[i].similarity = RZero
  /\ \A vibe \in StateVectors :
       /\ legacySimilarities(<<>>, PrefById(<<>>), vibe) = <<>>
       /\ legacyBlended(<<>>, PrefById(<<>>), vibe) = RZero

\* A two-user blend shown when neither participant has a vector, with a
\* candidate whose own vector is present and not zero.
C18_Witness ==
  /\ id # NoUser
  /\ prefs[Me] = NULL
  /\ prefs[id] = NULL
  /\ \E i \in 1..Len(movies) :
       /\ movies[i].similarity = RZero
       /\ \A k \in SourcesOf(movies[i]) : ~Degenerate(movieVibes[k].vibe_vector)

\* The participants of the blend on screen.
Participants ==
  (IF id # NoUser THEN {Me, id} ELSE {}) \cup {participantIds[j] : j \in 1..Len(participantIds)}

\* The pairs of vectors the blend on screen has scored against each other.
ScoredPairs ==
  {<<prefs[u], movieVibes[k].vibe_vector>> : u \in Participants, k \in 1..Len(movieVibes)}

\* C20: the similarity is symmetric: for every participant's vector and
\* candidate's vector the blend on screen has scored, missing ones and ones
\* of different lengths included, a scored against b is b scored against a,
\* in the shared cosine and in the cosine written inside the legacy blend.
C20_SimilaritySymmetric ==
  \A pair \in ScoredPairs :
    LET a == pair[1]
        b == pair[2]
    IN /\ cosine(a, b) = cosine(b, a)
       /\ (a # NULL /\ b # NULL) => legacyCos(a, b) = legacyCos(b, a)

\* A blend shown for a candidate whose vector has fewer components than
\* the preference vector it scored above 0 against.
C20_Witness ==
  /\ id # NoUser
  /\ \E i \in 1..Len(movies) : \E k \in SourcesOf(movies[i]) :
       /\ movieVibes[k].vibe_vector # NULL
       /\ prefs[Me] # NULL
       /\ Length(movieVibes[k].vibe_vector) < Length(prefs[Me])
       /\ RLess(RZero, cosine(prefs[Me], movieVibes[k].vibe_vector))
       /\ RLess(RZero, movies[i].similarity)

\* C19: for vectors with components in [-1, 1], the number cosine returns
\* lies in [-1, 1].
C19_SimilarityBounded ==
  cosineResult # NULL => DWithinOne(cosineResult)

\* C21: scaling the first argument of cosine by k > 0 leaves the number it
\* returns unchanged.
C21_ScaleInvariant ==
  (cosineResult # NULL /\ scaledResult # NULL) => scaledResult = cosineResult

\* v with every component brought into [-1, 1], null staying null.
Clamped(v) ==
  IF v = NULL THEN NULL
  ELSE Vec([i \in 1..Length(v) |->
              IF v.items[i] > 100 THEN 100
              ELSE IF v.items[i] < -100 THEN -100 ELSE v.items[i]])

ClampedBatch(batch) ==
  [k \in 1..Len(batch) |-> [batch[k] EXCEPT !.vibe_vector = Clamped(@)]]

\* C22: the rows shown for vectors with components outside [-1, 1] carry
\* the scores, in the order, that the clamped vectors give.
C22_OutOfRangeAsClamped ==
  (id # NoUser /\ movies # <<>>) =>
     movies = sort(loadRows(Clamped(prefs[Me]), Clamped(prefs[id]),
                            ClampedBatch(movieVibes)))

QuestionIds == {QUESTIONS[n].id : n \in 1..totalQuestions}

IndexInRange == currentIndex \in 0..(totalQuestions - 1)

SubmittedFromLast ==
  \A k \in DOMAIN submissions :
     submissions[k].live => currentIndex = totalQuestions - 1

AllAnswered ==
  \A k \in DOMAIN submissions : DOMAIN submissions[k].finalAnswers = QuestionIds

NoZeroComponent ==
  \A k \in DOMAIN submissions :
     submissions[k].preferenceVector # NULL =>
        \A i \in 1..totalQuestions :
           submissions[k].preferenceVector.items[i] \in {-100, 100}

\* C28: the index of the question shown stays within 0..9, and a
\* submission is made from the last question with all ten questions
\* answered, so that the vector it posts has no component 0.
C28_QuizSubmitsAllAnswers ==
  IndexInRange /\ SubmittedFromLast /\ AllAnswered /\ NoZeroComponent

\* C29: the route is the main tabs only once the backend has stored the
\* vector, and when no submission is under way any more submitting is false
\* and the loader is hidden.
C29_NavigatesOnlyWhenSaved ==
  /\ route = "/(tabs)" => prefs[Me] # NULL
  /\ submissions = <<>> => (~submitting /\ ~loader.isLoading)

\* C23: once auth loading and the bootstrap have finished, the gate sends an
\* unauthenticated user outside the (auth) group to /(auth)/login and nowhere
\* else, sends a user with a profile and preferences from an (auth),
\* (profile-setup) or (vibe-quiz) route to /(tabs), and after any redirect of
\* the gate no further redirect is due (no redirect loop).
OnboardingSegments == {"(auth)", "(profile-setup)", "(vibe-quiz)"}

C23_RoutingConsistent ==
  /\ [](SlotShown =>
         /\ (~isAuthenticated /\ RootSegment(route) # "(auth)")
              => Redirect = "/(auth)/login"
         /\ (isAuthenticated /\ hasProfile = "true" /\ hasPreferences = "true"
              /\ RootSegment(route) \in OnboardingSegments)
              => Redirect = "/(tabs)")
  /\ [][routingEffect =>
          /\ (~isAuthenticated => route' = "/(auth)/login")
          /\ (isAuthenticated /\ hasProfile = "true" /\ hasPreferences = "true")
               => route' = "/(tabs)"
          /\ Redirect' = "none"]_vars

\* A signed-out user was taken from the quiz, a submission under way, to
\* the login route, where no redirect is due.
C23_Witness ==
  /\ ~isAuthenticated
  /\ route = "/(auth)/login"
  /\ submissions # <<>>
  /\ \A k \in DOMAIN submissions : ~submissions[k].live
  /\ Redirect = "none"

\* C24: once the quiz of a signed-in user with a profile has been saved
\* and the user sent to the tabs, the gate never redirects that user to
\* /vibe-quiz again, whatever route the user goes to.
C24_NoSecondQuiz ==
  [][(routingEffect /\ isAuthenticated /\ hasProfile = "true" /\ prefs[Me] # NULL)
       => route' # "/vibe-quiz"]_vars

\* C25: under any interleaving of the bootstrap's and the quiz
\* submission's calls of showLoading and hideLoading, the loader shows while
\* a call of bootstrap or handleSubmit that called showLoading has yet to
\* call hideLoading, the counter is never below 0, and isLoading holds
\* exactly when the counter is positive.
OperationsUnderWay == Len(boots) + Len(submissions)

C25_LoaderNesting ==
  /\ loader.count >= 0
  /\ loader.isLoading <=> loader.count > 0
  /\ OperationsUnderWay > 0 => loader.isLoading

\* C26: the results shown belong to the current selection: a call of
\* computeBlended that completes after the selection was cleared or changed,
\* or after a later call was started, neither overwrites blendedTopPicks and
\* blendedCategories nor switches viewMode to 'results'; and viewMode =
\* 'results' implies blendedTopPicks is not null.
Completes(k) ==
  /\ k \in DOMAIN blendRequests
  /\ Len(blendRequests') = Len(blendRequests) - 1
  /\ blendRequests' = Remove(blendRequests, k)

Stale(k) ==
  \/ blendRequests[k].participantIds # ParticipantIds(selectedUsers)
  \/ k < Len(blendRequests)

C26_ResultsOfSelection ==
  /\ [](viewMode = "results" =>
          (blendedTopPicks # NULL /\ participantIds = ParticipantIds(selectedUsers)))
  /\ [][\A k \in 1..MaxBlendRequests :
          (Completes(k) /\ Stale(k))
            => UNCHANGED <<blendedTopPicks, blendedCategories, viewMode>>]_vars

\* C27: the user search's results are cleared when the trimmed query is
\* empty and belong to the latest query: with nothing more to come the
\* results are empty for an empty query and otherwise those of the query in
\* the box or none, the answer to an earlier query that arrives after the
\* query was cleared or changed leaves the results alone, and at most one
\* debounce timer is pending.
SearchQuiet == ~searchEffectDue /\ timers = {} /\ searches = <<>>

AnswerArrives(k) ==
  /\ k \in DOMAIN searches
  /\ Len(searches') = Len(searches) - 1
  /\ searches' = Remove(searches, k)

C27_ResultsOfLatestQuery ==
  /\ [](/\ (SearchQuiet /\ Trim(searchQuery) = <<>>) => results = <<>>
        /\ SearchQuiet => results \in {<<>>, ProfilesLike(Trim(searchQuery))}
        /\ Cardinality(timers) <= 1)
  /\ [][\A k \in 1..MaxSearches :
          (AnswerArrives(k) /\ searches[k].trimmed # Trim(searchQuery))
            => UNCHANGED results]_vars

\* C30: for two participants whose preference vectors are both present and
\* any batch of candidates, with or without vibe vectors, the legacy
\* computeBlended and BlendWithUserScreen give every candidate the same
\* score and show the candidates in the same order: the rows either screen
\* shows are the rows the other computes.
BothPresent(first, second) == ValidPref(prefs[first]) /\ ValidPref(prefs[second])

C30_BlendsAgree ==
  /\ (mounted = "BlendWithUserScreen" /\ id # NoUser /\ BothPresent(Me, id)
       /\ Len(movies) = Len(movieVibes))
        => movies = sort(legacyRows(<<Me, id>>, PrefById(<<Me, id>>), movieVibes))
  /\ (mounted = "LegacyBlendScreen" /\ blendedMovies # NULL
       /\ Len(participantIds) = 2)
        => (BothPresent(participantIds[1], participantIds[2]) =>
              blendedMovies =
                Vec(sort(loadRows(prefs[participantIds[1]], prefs[participantIds[2]],
                                  movieVibes))))

\* The legacy screen shows the blend of two participants, both with a
\* vector, over two candidates, one of them without a vibe vector, the other
\* scored away from 0.
C30_Witness ==
  /\ mounted = "LegacyBlendScreen"
  /\ viewMode = "results"
  /\ blendedMovies # NULL
  /\ Len(participantIds) = 2
  /\ BothPresent(participantIds[1], participantIds[2])
  /\ Len(blendedMovies.items) = 2
  /\ \E k \in 1..Len(movieVibes) : movieVibes[k].vibe_vector = NULL
  /\ \E i \in 1..2 : blendedMovies.items[i].similarity # RZero

====
